---------------------------- MODULE Spec2Model ----------------------------
(***************************************************************************)
(* MoltArena: the match / round state machine of the off-chain RPS service. *)
(*                                                                         *)
(* One matches row and its match_rounds rows are the shared state.  Every  *)
(* request handler executes its database statements in order.  A step of a *)
(* handler is one write (update, insert, upsert) or an unbroken run of     *)
(* selects with the synchronous code around them, so handlers interleave   *)
(* between their writes, and what a handler has read may be stale by the   *)
(* time it writes.  What a handler has read is kept in its local           *)
(* variables.  A request that is answered with an error before its first   *)
(* write changes nothing and is not a step.                                *)
(*                                                                         *)
(* Two deployments share the tables: the socket backend (the "commit" and  *)
(* "reveal" events and reconcileRounds) and the HTTP API (the commit and   *)
(* reveal routes and checkAndResolveTimeouts, run by the state route).     *)
(* SpecBackend and SpecApi are the behaviours of each.                     *)
(*                                                                         *)
(* Time: the clock counts units of 5,000 ms, so the 30,000 ms commit and   *)
(* reveal windows are 6 units and the 5,000 ms phase buffer is 1 unit.  A  *)
(* statement's timestamps take the clock value at which it executes.       *)
(***************************************************************************)
EXTENDS Integers, Sequences, FiniteSets, TLC

\* ------------------------------------------------------------------ bounds
\* The largest best_of of a modelled match (best_of is odd and > 0).
MaxBestOf == 3
\* The clock is observed every TickStep units and stops at MaxTime.
TickStep == 7
MaxTime == 14
\* Request handlers that may be in flight at the same time.
NProcs == 2
\* Players draw their moves from 1..MaxMove.
MaxMove == 2
\* Players draw their salts from 1..NSalts.
NSalts == 1
\* The commit and reveal requests that are accepted in one behaviour.
MaxRequests == 4
\* The distinct signatures one key can produce over one message.
NSigVariants == 2
\* The match ids used on the escrow contract.
NMatchIds == 2
\* The accounts that send transactions (address 0 is address(0)).
NAddrs == 3
\* What each account holds at the start, in units of 0.05 MON.
InitialFunds == 3
\* The matches the game contract creates in one behaviour.
NArenaMatches == 1
\* The accounts that send transactions to the game contract.
NArenaAddrs == 2
\* block.timestamp is observed once per PHASE_TIMEOUT, up to MaxBlockTime.
MaxBlockTime == 3
\* The rounds of a match that are begun and not decided at the same time.
MaxOpenRounds == 1
\* The rounds of a match that are begun in one behaviour.
MaxNewRounds == 2
\* The wager players enqueue with, in units of 0.05 MON.
WAGER == 1

\* --------------------------------------------------------- program constants
\* 30_000 ms, in units of 5,000 ms.
COMMIT_WINDOW == 6
\* 30_000 ms, in units of 5,000 ms.
REVEAL_WINDOW == 6
\* 5_000 ms, in units of 5,000 ms.
PHASE_BUFFER == 1
\* 0.1 ether, in units of 0.05 MON.
MIN_STAKE == 2
\* The best-of value settleMatch accepts.
DEFAULT_BEST_OF == 5
\* The version of the contract's EIP-712 domain: EIP712("RPSArena", "2").
CONTRACT_DOMAIN_VERSION == 2

\* getMatchResultDomain: version "1", the domain version the service verifies
\* and advertises MatchResult signatures under
SERVICE_DOMAIN_VERSION == 1
\* The game contract's constants; PHASE_TIMEOUT is 60 s, the unit of
\* block.timestamp here.
MAX_ROUNDS == 5
WINS_TO_FINISH == 3
PHASE_TIMEOUT == 1

\* SQL NULL / JavaScript null.
NULL == -99

Players == {1, 2}
Procs == 1..NProcs
RoundNums == 1..MaxBestOf
BestOfs == {b \in 1..MaxBestOf : b % 2 = 1}
PlayedMoves == 1..MaxMove
Salts == 1..NSalts

\* keccak256 of the move byte followed by the salt bytes: an injective
\* encoding of the pair (collision freedom of the hash).
Keccak(move, salt) == salt * 4 + move

\* The digests a player may send in a commit.
Digests == {Keccak(m, s) : m \in PlayedMoves, s \in Salts}

\* The digest of 32 zero bytes, the placeholder a client may send instead of
\* a hash; no keccak256 of a move and a salt equals it.
ZeroDigest == 0

\* isAllZeros || isRepeatedPattern || isSequential
isPlaceholder(digest) == digest = ZeroDigest

\* The well-formed commitHash values (0x + 64 hex) a client may send.
SentDigests == Digests \cup {ZeroDigest}

\* Math.ceil(best_of / 2)
NeededWins(bestOf) == (bestOf + 1) \div 2

\* 1 = player1 wins, -1 = player2 wins, 0 = draw.
getRoundResult(move1, move2) ==
    IF move1 = move2 THEN 0
    ELSE IF \/ (move1 = 1 /\ move2 = 3)
            \/ (move1 = 2 /\ move2 = 1)
            \/ (move1 = 3 /\ move2 = 2)
         THEN 1
         ELSE -1

VARIABLES
    now,       \* Date.now(), in units of 5,000 ms
    match,     \* the matches row
    rounds,    \* the match_rounds rows, by round_number
    pc,        \* the position of each handler in flight, in order of arrival
    loc,       \* the local variables of each handler in flight
    forfeits,  \* history: how many timeout resolutions were written to each round
    requests,  \* history: how many commit and reveal requests were accepted
    escrow,    \* the escrow contract RPSArena: its storage, the balances, the last transaction
    arena      \* the game contract RPSArena: its storage, the balances, block.timestamp

vars == <<now, match, rounds, pc, loc, forfeits, requests, escrow, arena>>

\* The state on chain; the service reads it and never writes it.
chainVars == <<escrow, arena>>

MatchIds == 1..NMatchIds
Addrs == 1..NAddrs
ArenaIds == 1..NArenaMatches
ArenaAddrs == 1..NArenaAddrs
ArenaRounds == 1..MAX_ROUNDS

\* matches[matchId] and rounds[matchId][round] as Solidity zero-initialises
\* them; status is a MatchStatus.
NoArenaMatch ==
    [player1 |-> 0, player2 |-> 0, wager |-> 0, roundsPlayed |-> 0,
     wins1 |-> 0, wins2 |-> 0, status |-> "WaitingCommits", settled |-> FALSE]

NoArenaRound ==
    [commit1 |-> 0, commit2 |-> 0, move1 |-> 0, move2 |-> 0,
     commitDeadline |-> 0, revealDeadline |-> 0,
     revealed1 |-> FALSE, revealed2 |-> FALSE, decided |-> FALSE]

\* The game contract as deployed, at block.timestamp 1: `wallet` is what
\* each account holds, `paid` what _settle has paid out for each match,
\* `last` the last transaction that did not revert, `begun` how many rounds
\* have been begun since the start.
ArenaDeployed ==
    [matches       |-> [id \in ArenaIds |-> NoArenaMatch],
     rounds        |-> [id \in ArenaIds |-> [r \in ArenaRounds |-> NoArenaRound]],
     waitingPlayer |-> 0,
     nextMatchId   |-> 1,
     balance       |-> 0,
     wallet        |-> [a \in ArenaAddrs |-> WAGER],
     paid          |-> [id \in ArenaIds |-> 0],
     timestamp     |-> 1,
     begun         |-> 0,
     last          |-> [fn |-> "constructor", matchId |-> 0]]

\* lockedMatches[matchId] before anyone staked.
NoLockedMatch ==
    [player1 |-> 0, player2 |-> 0, stake |-> 0,
     player1Locked |-> FALSE, player2Locked |-> FALSE, settled |-> FALSE]

\* The escrow contract as deployed: empty storage and no balance; `wallet`
\* is what each account holds, `paid` what settleMatch has paid out for each
\* match id, `settles` how many settleMatch calls succeeded for it, `last`
\* the last transaction: the function, its match id, the winner named in the
\* result passed, and "ok" or the revert reason.
EscrowDeployed ==
    [lockedMatches |-> [id \in MatchIds |-> NoLockedMatch],
     settledMatch  |-> [id \in MatchIds |-> FALSE],
     balance       |-> 0,
     wallet        |-> [a \in Addrs |-> InitialFunds],
     paid          |-> [id \in MatchIds |-> 0],
     settles       |-> [id \in MatchIds |-> 0],
     last          |-> [fn |-> "constructor", matchId |-> 0, winner |-> 0,
                        outcome |-> "ok"]]

\* A round_number with no row.
NoRow ==
    [phase |-> "none", commit1 |-> NULL, commit2 |-> NULL,
     commit1_hex |-> NULL, commit2_hex |-> NULL,
     move1 |-> NULL, move2 |-> NULL, result |-> NULL,
     commit_deadline |-> NULL, reveal_deadline |-> NULL, updated_at |-> NULL]

Exists(r) == r.phase # "none"

\* What a sweep decides for one round it read: nothing, a phase advance
\* (with the reveal deadline to write), or a timeout resolution (a result).
NoPlan == [kind |-> "none", result |-> NULL, rdl |-> NULL]
NoPlans == [k \in RoundNums |-> NoPlan]

\* A slot with no handler.
Idle ==
    [player |-> 0, n |-> 0, val |-> NULL, found |-> FALSE,
     mw1 |-> 0, mw2 |-> 0, w1 |-> 0, w2 |-> 0,
     plan |-> NoPlans, gaps |-> {}, t |-> 0, res |-> NULL,
     ld |-> 0, ldAt |-> NULL,
     sig |-> NULL, th |-> NULL, sig1 |-> NULL, sig2 |-> NULL,
     out1 |-> NULL, out2 |-> NULL]

\* The handler's step ends at `label` with locals `l`.
Goto(p, label, l) ==
    /\ pc' = [pc EXCEPT ![p] = label]
    /\ loc' = [loc EXCEPT ![p] = l]
    /\ UNCHANGED chainVars

\* The handler returns; the handlers that arrived after it move up.
Return(p) ==
    /\ pc' = [q \in Procs |-> IF q < p THEN pc[q]
                              ELSE IF q < NProcs THEN pc[q + 1] ELSE "idle"]
    /\ loc' = [q \in Procs |-> IF q < p THEN loc[q]
                               ELSE IF q < NProcs THEN loc[q + 1] ELSE Idle]
    /\ UNCHANGED chainVars

\* The handlers in flight.
InFlight == {p \in Procs : pc[p] # "idle"}

Min(S) == CHOOSE x \in S : \A y \in S : x <= y
Max0(S) == IF S = {} THEN 0 ELSE CHOOSE x \in S : \A y \in S : y <= x

\* hasCommit(round, p): the hex column holds a digest, or the bytea column
\* is not null.
hasCommit(r, p) ==
    IF p = 1 THEN r.commit1_hex # NULL \/ r.commit1 # NULL
             ELSE r.commit2_hex # NULL \/ r.commit2 # NULL

\* round.phase === "done" || round.result !== null
Resolved(r) == r.phase = "done" \/ r.result # NULL

\* INSERT INTO match_rounds: fails on the (match_id, round_number) key when
\* the row exists; updated_at takes the column default.
InsertRound(k, row) ==
    IF Exists(rounds[k]) THEN rounds' = rounds
    ELSE rounds' = [rounds EXCEPT ![k] = [row EXCEPT !.updated_at = now]]

\* The round in play: the first round number with no resolved row.
CurrentRound ==
    Min({k \in 1..(MaxBestOf + 1) :
            k = MaxBestOf + 1 \/ ~(Exists(rounds[k]) /\ Resolved(rounds[k]))})

\* The rounds a client's request names: the round in play, or the one before.
ClientRounds ==
    {k \in 1..match.best_of : CurrentRound - 1 <= k /\ k <= CurrentRound}

\* A request is taken by the first free slot.
FreeSlot(p) == pc[p] = "idle" /\ \A q \in Procs : q < p => pc[q] # "idle"

TypeOK ==
    /\ now \in 0..MaxTime
    /\ match.status \in {"in_progress", "ready_to_settle"}
    /\ match.best_of \in BestOfs
    /\ pc \in [Procs -> STRING]
    /\ \A k \in RoundNums : rounds[k].phase \in {"none", "commit", "reveal", "done"}

\* The match has just gone from lobby to in_progress: createRound1 has
\* inserted round 1 in commit phase with commit_deadline = now + 30 s.
InitService ==
    /\ now = 0
    /\ \E b \in BestOfs :
          match = [status |-> "in_progress", best_of |-> b, wins1 |-> 0, wins2 |-> 0,
                   winner_address |-> NULL,
                   sig1 |-> NULL, sig2 |-> NULL, transcript_hash |-> NULL]
    /\ rounds = [k \in RoundNums |->
                    IF k = 1
                    THEN [NoRow EXCEPT !.phase = "commit",
                                       !.commit_deadline = COMMIT_WINDOW,
                                       !.updated_at = 0]
                    ELSE NoRow]
    /\ pc = [p \in Procs |-> "idle"]
    /\ loc = [p \in Procs |-> Idle]
    /\ forfeits = [k \in RoundNums |-> 0]
    /\ requests = 0

\* The service with a match just begun, and the contracts as deployed.
Init ==
    /\ InitService
    /\ escrow = EscrowDeployed
    /\ arena = ArenaDeployed

\* Time passes.
Tick ==
    /\ now + TickStep <= MaxTime
    /\ now' = now + TickStep
    /\ UNCHANGED <<match, rounds, pc, loc, forfeits, requests>>
    /\ UNCHANGED chainVars


\* ---------------------------------------------------------------------------
\* reconcileRounds(matchId): the backend's sweep, run by resume, by the state
\* event and at the end of the socket commit and reveal handlers.
\* ---------------------------------------------------------------------------

RRCommitTimeout(r, t) ==
    r.phase = "commit" /\ r.commit_deadline # NULL /\ t > r.commit_deadline

RRCommitResult(r) ==
    IF ~hasCommit(r, 1) /\ ~hasCommit(r, 2) THEN 0
    ELSE IF ~hasCommit(r, 1) THEN -1
    ELSE IF ~hasCommit(r, 2) THEN 1
    ELSE NULL

\* A sweep that awards a reveal timeout to the player who did not reveal.
RevealResultSwapped(r) ==
    IF r.move1 = NULL /\ r.move2 = NULL THEN 0
    ELSE IF r.move1 = NULL THEN 1
    ELSE IF r.move2 = NULL THEN -1
    ELSE NULL

RevealResult(r) ==
    IF r.move1 = NULL /\ r.move2 = NULL THEN 0
    ELSE IF r.move1 = NULL THEN -1
    ELSE IF r.move2 = NULL THEN 1
    ELSE NULL

\* revealStart = (commit_deadline ?? now) + PHASE_BUFFER_MS
RevealStart(r, t) ==
    (IF r.commit_deadline # NULL THEN r.commit_deadline ELSE t) + PHASE_BUFFER

\* The advance to reveal keeps a reveal deadline that is already there.
AdvancePlan(r, t) ==
    [kind |-> "advance", result |-> NULL,
     rdl |-> IF r.reveal_deadline # NULL THEN r.reveal_deadline
             ELSE RevealStart(r, t) + REVEAL_WINDOW]

ForfeitPlan(result) == [kind |-> "forfeit", result |-> result, rdl |-> NULL]

\* The loop body for one round `r` of roundsAfter, at the sweep's `now` (t).
RRPlan(r, t) ==
    IF ~Exists(r) \/ Resolved(r) THEN NoPlan
    ELSE IF RRCommitTimeout(r, t) /\ RRCommitResult(r) # NULL
    THEN ForfeitPlan(RRCommitResult(r))
    ELSE IF r.phase = "commit" /\ hasCommit(r, 1) /\ hasCommit(r, 2)
            /\ t >= RevealStart(r, t)
    THEN AdvancePlan(r, t)
    ELSE IF r.phase = "reveal" /\ r.reveal_deadline # NULL
            /\ t > r.reveal_deadline /\ RevealResult(r) # NULL
    THEN ForfeitPlan(RevealResult(r))
    ELSE NoPlan

\* The rounds the loop still has to write to.
Todo(plan) == {k \in RoundNums : plan[k].kind # "none"}

\* The update of round k that a sweep's loop planned.
SweepWrite(k, plan) ==
    /\ rounds' = [rounds EXCEPT ![k] =
          IF plan.kind = "advance"
          THEN [@ EXCEPT !.phase = "reveal", !.reveal_deadline = plan.rdl,
                         !.updated_at = now]
          ELSE [@ EXCEPT !.phase = "done", !.result = plan.result,
                         !.updated_at = now]]
    /\ forfeits' = [forfeits EXCEPT ![k] =
          IF plan.kind = "forfeit" /\ @ < 2 THEN @ + 1 ELSE @]

RRWinner(w1, w2, bestOf) ==
    IF w1 >= NeededWins(bestOf) THEN 1
    ELSE IF w2 >= NeededWins(bestOf) THEN 2
    ELSE NULL

\* The rows that are resolved.
DoneRounds == {k \in RoundNums : Exists(rounds[k]) /\ Resolved(rounds[k])}

\* select round_number, phase, result (latestRounds); when a next round is
\* due, select that round and insert it if it is missing (commit_deadline =
\* now + 30_000); allDone and winnerAddress; return unless there is a winner.
RRTail(p, l) ==
    LET bestOf == match.best_of
        actualLastDone == Max0(DoneRounds)
        hasWinner == l.w1 >= NeededWins(bestOf) \/ l.w2 >= NeededWins(bestOf)
        allDone == Cardinality(DoneRounds) >= bestOf
    IN
     /\ IF ~hasWinner /\ actualLastDone < bestOf /\ actualLastDone >= 1
        THEN InsertRound(actualLastDone + 1,
                 [NoRow EXCEPT !.phase = "commit",
                               !.commit_deadline = l.t + COMMIT_WINDOW])
        ELSE rounds' = rounds
     /\ IF (hasWinner \/ allDone) /\ RRWinner(l.w1, l.w2, bestOf) # NULL
        THEN Goto(p, "rr_status", l)
        ELSE Return(p)

\* The wins counted over the rows with phase = "done".
CalcWins(res) ==
    Cardinality({k \in RoundNums : rounds[k].phase = "done" /\ rounds[k].result = res})

\* select result where phase = "done": the counted wins against the wins read
\* at the start.
RRAfterLoop(p, l) ==
    IF CalcWins(1) # l.mw1 \/ CalcWins(-1) # l.mw2
    THEN /\ Goto(p, "rr_fixwins", [l EXCEPT !.w1 = CalcWins(1), !.w2 = CalcWins(-1)])
         /\ rounds' = rounds
    ELSE RRTail(p, l)

\* The second select of all rounds (roundsAfter) and what the loop will do
\* with each of them.
RRAfterFill(p, l) ==
    LET plan == [k \in RoundNums |-> RRPlan(rounds[k], l.t)] IN
    IF Todo(plan) # {}
    THEN /\ Goto(p, "rr_sweep", [l EXCEPT !.plan = plan])
         /\ rounds' = rounds
    ELSE RRAfterLoop(p, l)

\* select the match (return unless in_progress) and its rounds; the round
\* numbers of 1..best_of that have no row.  The sweep starts on a request of
\* its own (resume, state) or as the tail of a socket handler.
RrStart(p) ==
    /\ \/ pc[p] = "rr_match"
       \/ FreeSlot(p) /\ match.status = "in_progress"
    /\ IF match.status # "in_progress"
       THEN Return(p) /\ rounds' = rounds
       ELSE LET l == [Idle EXCEPT !.t = now,
                                  !.mw1 = match.wins1, !.mw2 = match.wins2,
                                  !.w1 = match.wins1, !.w2 = match.wins2]
                gaps == {k \in 1..match.best_of : ~Exists(rounds[k])}
            IN IF gaps # {}
               THEN Goto(p, "rr_fill", [l EXCEPT !.gaps = gaps]) /\ rounds' = rounds
               ELSE RRAfterFill(p, l)
    /\ UNCHANGED <<now, match, forfeits, requests>>

\* upsert {round_number: n, phase: "done", result: 0} for the next missing n.
RrFill(p) ==
    /\ pc[p] = "rr_fill"
    /\ LET k == Min(loc[p].gaps)
           left == loc[p].gaps \ {k}
       IN
        /\ rounds' = [rounds EXCEPT ![k] =
               IF Exists(@) THEN [@ EXCEPT !.phase = "done", !.result = 0]
               ELSE [NoRow EXCEPT !.phase = "done", !.result = 0, !.updated_at = now]]
        /\ Goto(p, IF left = {} THEN "rr_reread" ELSE "rr_fill", [loc[p] EXCEPT !.gaps = left])
    /\ UNCHANGED <<now, match, forfeits, requests>>

\* The selects after the last upsert.
RrReread(p) ==
    /\ pc[p] = "rr_reread"
    /\ RRAfterFill(p, loc[p])
    /\ UNCHANGED <<now, match, forfeits, requests>>

\* The loop's next update of a round, by id: the phase advance, or
\* {phase: "done", result} and the local win counter.
RrSweep(p) ==
    /\ pc[p] = "rr_sweep"
    /\ LET l == loc[p]
           k == Min(Todo(l.plan))
           plan == l.plan[k]
           left == [l.plan EXCEPT ![k] = NoPlan]
       IN
        /\ SweepWrite(k, plan)
        /\ Goto(p, IF Todo(left) = {} THEN "rr_calc" ELSE "rr_sweep",
                [l EXCEPT !.plan = left,
                          !.w1 = IF plan.result = 1 THEN @ + 1 ELSE @,
                          !.w2 = IF plan.result = -1 THEN @ + 1 ELSE @])
    /\ UNCHANGED <<now, match, requests>>

\* The selects after the loop's last update.
RrCalc(p) ==
    /\ pc[p] = "rr_calc"
    /\ RRAfterLoop(p, loc[p])
    /\ UNCHANGED <<now, match, forfeits, requests>>

\* update matches set wins1 = calcWins1, wins2 = calcWins2.
RrFixWins(p) ==
    /\ pc[p] = "rr_fixwins"
    /\ match' = [match EXCEPT !.wins1 = loc[p].w1, !.wins2 = loc[p].w2]
    /\ Goto(p, "rr_latest", loc[p])
    /\ UNCHANGED <<now, rounds, forfeits, requests>>

\* The selects after the update of the wins.
RrLatest(p) ==
    /\ pc[p] = "rr_latest"
    /\ RRTail(p, loc[p])
    /\ UNCHANGED <<now, match, forfeits, requests>>

\* update matches set status = "ready_to_settle", winner_address, wins1, wins2.
RrStatus(p) ==
    /\ pc[p] = "rr_status"
    /\ match' = [match EXCEPT !.status = "ready_to_settle",
                              !.winner_address =
                                  RRWinner(loc[p].w1, loc[p].w2, match.best_of),
                              !.wins1 = loc[p].w1, !.wins2 = loc[p].w2]
    /\ Return(p)
    /\ UNCHANGED <<now, rounds, forfeits, requests>>

reconcileRounds(p) ==
    \/ RrStart(p)
    \/ RrFill(p)
    \/ RrReread(p)
    \/ RrSweep(p)
    \/ RrCalc(p)
    \/ RrFixWins(p)
    \/ RrLatest(p)
    \/ RrStatus(p)


\* ---------------------------------------------------------------------------
\* The socket "commit" event.
\* ---------------------------------------------------------------------------

\* select the match (INVALID_STATE unless in_progress) and the round
\* (INVALID_PHASE unless in commit phase, ALREADY_COMMITTED).
ScAccepts(player, n) ==
    /\ match.status = "in_progress"
    /\ Exists(rounds[n]) => /\ rounds[n].phase = "commit"
                            /\ ~hasCommit(rounds[n], player)

\* The request arrives and passes the checks.
ScRead(p, player, n, digest) ==
    /\ FreeSlot(p)
    /\ requests < MaxRequests
    /\ requests' = requests + 1
    /\ ScAccepts(player, n)
    /\ Goto(p, "sc_write",
            [Idle EXCEPT !.player = player, !.n = n, !.val = digest,
                         !.found = Exists(rounds[n])])
    /\ UNCHANGED <<now, match, rounds, forfeits>>

\* update the round's commit columns by id, or insert the round with
\* commit_deadline = now + 30_000; then reconcileRounds.
ScWrite(p) ==
    /\ pc[p] = "sc_write"
    /\ LET l == loc[p] IN
        /\ IF l.found
           THEN rounds' = [rounds EXCEPT ![l.n] =
                    IF l.player = 1
                    THEN [@ EXCEPT !.commit1_hex = l.val, !.commit1 = l.val,
                                   !.updated_at = now]
                    ELSE [@ EXCEPT !.commit2_hex = l.val, !.commit2 = l.val,
                                   !.updated_at = now]]
           ELSE InsertRound(l.n,
                    IF l.player = 1
                    THEN [NoRow EXCEPT !.commit1_hex = l.val, !.commit1 = l.val,
                                       !.phase = "commit",
                                       !.commit_deadline = now + COMMIT_WINDOW]
                    ELSE [NoRow EXCEPT !.commit2_hex = l.val, !.commit2 = l.val,
                                       !.phase = "commit",
                                       !.commit_deadline = now + COMMIT_WINDOW])
        /\ Goto(p, "rr_match", Idle)
    /\ UNCHANGED <<now, match, forfeits, requests>>

socketCommit(p) ==
    \/ \E player \in Players, n \in ClientRounds, digest \in SentDigests :
          ScRead(p, player, n, digest)
    \/ ScWrite(p)

\* ---------------------------------------------------------------------------
\* The socket "reveal" event.
\* ---------------------------------------------------------------------------

\* The digest the socket reveal is compared with: the hex column, else the
\* bytea column.
StoredHex(r, player) ==
    IF player = 1
    THEN (IF r.commit1_hex # NULL THEN r.commit1_hex ELSE r.commit1)
    ELSE (IF r.commit2_hex # NULL THEN r.commit2_hex ELSE r.commit2)

CommitOf(r, player) == IF player = 1 THEN r.commit1 ELSE r.commit2

MoveOf(r, player) == IF player = 1 THEN r.move1 ELSE r.move2

\* keccak256([move, ...salt]) === stored
VerifyReveal(move, salt, stored) == Keccak(move, salt) = stored

\* select the match (its status is not looked at) and the round: NOT_FOUND,
\* INVALID_PHASE, INVALID_COMMIT, ALREADY_REVEALED, INVALID_REVEAL.
SrAccepts(player, n, move, salt) ==
    LET r == rounds[n] IN
    /\ Exists(r)
    /\ r.phase \in {"commit", "reveal"}
    /\ StoredHex(r, player) # NULL
    /\ MoveOf(r, player) = NULL
    /\ VerifyReveal(move, salt, StoredHex(r, player))

\* The request arrives and passes the checks.
SrRead(p, player, n, move, salt) ==
    /\ FreeSlot(p)
    /\ requests < MaxRequests
    /\ requests' = requests + 1
    /\ SrAccepts(player, n, move, salt)
    /\ Goto(p, "sr_move",
            [Idle EXCEPT !.player = player, !.n = n, !.val = move,
                         !.mw1 = match.wins1, !.mw2 = match.wins2])
    /\ UNCHANGED <<now, match, rounds, forfeits>>

\* update the round's move column by id.
SrWriteMove(p) ==
    /\ pc[p] = "sr_move"
    /\ rounds' = [rounds EXCEPT ![loc[p].n] =
            IF loc[p].player = 1
            THEN [@ EXCEPT !.move1 = loc[p].val, !.updated_at = now]
            ELSE [@ EXCEPT !.move2 = loc[p].val, !.updated_at = now]]
    /\ Goto(p, "sr_check", loc[p])
    /\ UNCHANGED <<now, match, forfeits, requests>>

\* With both moves there: the result and the new wins, counted from the wins
\* read when the request came.
WithResult(l, r) ==
    LET result == getRoundResult(r.move1, r.move2) IN
    [l EXCEPT !.res = result,
              !.w1 = l.mw1 + (IF result = 1 THEN 1 ELSE 0),
              !.w2 = l.mw2 + (IF result = -1 THEN 1 ELSE 0)]

\* select move1, move2 of the round; without both, reconcileRounds.
SrCheck(p) ==
    /\ pc[p] = "sr_check"
    /\ LET r == rounds[loc[p].n] IN
       IF r.move1 # NULL /\ r.move2 # NULL
       THEN Goto(p, "sr_result", WithResult(loc[p], r))
       ELSE Goto(p, "rr_match", Idle)
    /\ UNCHANGED <<now, match, rounds, forfeits, requests>>

\* update the round: result, phase = "done".
SrResult(p) ==
    /\ pc[p] = "sr_result"
    /\ rounds' = [rounds EXCEPT ![loc[p].n] =
            [@ EXCEPT !.result = loc[p].res, !.phase = "done", !.updated_at = now]]
    /\ Goto(p, "sr_wins", loc[p])
    /\ UNCHANGED <<now, match, forfeits, requests>>

HasWinner(l) ==
    l.w1 >= NeededWins(match.best_of) \/ l.w2 >= NeededWins(match.best_of)

\* update matches set wins1 = newWins1, wins2 = newWins2.
SrWins(p) ==
    /\ pc[p] = "sr_wins"
    /\ match' = [match EXCEPT !.wins1 = loc[p].w1, !.wins2 = loc[p].w2]
    /\ IF HasWinner(loc[p])
       THEN Goto(p, "sr_status", loc[p])
       ELSE Goto(p, "rr_match", Idle)
    /\ UNCHANGED <<now, rounds, forfeits, requests>>

\* update matches set status = "ready_to_settle", winner_address; then
\* reconcileRounds.
SrStatus(p) ==
    /\ pc[p] = "sr_status"
    /\ match' = [match EXCEPT !.status = "ready_to_settle",
                              !.winner_address =
                                  IF loc[p].w1 >= NeededWins(match.best_of) THEN 1 ELSE 2]
    /\ Goto(p, "rr_match", Idle)
    /\ UNCHANGED <<now, rounds, forfeits, requests>>

socketReveal(p) ==
    \/ \E player \in Players, n \in ClientRounds, move \in PlayedMoves, salt \in Salts :
          SrRead(p, player, n, move, salt)
    \/ SrWriteMove(p)
    \/ SrCheck(p)
    \/ SrResult(p)
    \/ SrWins(p)
    \/ SrStatus(p)


\* ---------------------------------------------------------------------------
\* checkAndResolveTimeouts(matchId): the API's sweep, run by every poll of
\* the state route while the match is in_progress.
\* ---------------------------------------------------------------------------

\* A sweep that awards a commit timeout to the player who did not commit.
CTCommitResultSwapped(r) ==
    IF r.commit1 = NULL /\ r.commit2 = NULL THEN 0
    ELSE IF r.commit1 = NULL THEN 1
    ELSE IF r.commit2 = NULL THEN -1
    ELSE NULL

\* The timeout branches look at the bytea columns only.
CTCommitResult(r) ==
    IF r.commit1 = NULL /\ r.commit2 = NULL THEN 0
    ELSE IF r.commit1 = NULL THEN -1
    ELSE IF r.commit2 = NULL THEN 1
    ELSE NULL

\* The loop body for one round `r` of the rounds read, at the sweep's `now` (t).
CTPlan(r, t) ==
    IF ~Exists(r) \/ Resolved(r) THEN NoPlan
    ELSE IF r.phase = "commit" /\ hasCommit(r, 1) /\ hasCommit(r, 2)
            /\ t >= RevealStart(r, t)
    THEN AdvancePlan(r, t)
    ELSE IF r.phase = "commit" /\ r.commit_deadline # NULL
            /\ t > r.commit_deadline /\ CTCommitResult(r) # NULL
    THEN ForfeitPlan(CTCommitResult(r))
    ELSE IF r.phase = "reveal" /\ r.reveal_deadline # NULL
            /\ t > r.reveal_deadline /\ RevealResult(r) # NULL
    THEN ForfeitPlan(RevealResult(r))
    ELSE NoPlan

MatchHasWinner ==
    \/ match.wins1 >= NeededWins(match.best_of)
    \/ match.wins2 >= NeededWins(match.best_of)

\* select wins1, wins2, best_of (updatedMatch): return unless a player has the
\* wins needed.
CTFinal(p, l) ==
    IF MatchHasWinner
    THEN Goto(p, "ct_status", [l EXCEPT !.w1 = match.wins1, !.w2 = match.wins2])
    ELSE Return(p)

\* After the loop: with a lastDone among the rounds read, select the wins;
\* when there is no winner, lastDone is not the last round and the buffer has
\* passed since lastDone.updated_at, select the next round.
CTAfterLoop(p, l) ==
    LET roundDoneAt == IF l.ldAt # NULL THEN l.ldAt ELSE l.t IN
    IF /\ l.ld # 0
       /\ ~MatchHasWinner
       /\ l.ld < match.best_of
       /\ l.t >= roundDoneAt + PHASE_BUFFER
       /\ ~Exists(rounds[l.ld + 1])
    THEN Goto(p, "ct_insert", l)
    ELSE CTFinal(p, l)

\* select the match (only for in_progress matches) and its rounds: what the
\* loop will do with each round, and lastDone with its updated_at.
CtStart(p) ==
    /\ FreeSlot(p)
    /\ match.status = "in_progress"
    /\ LET plan == [k \in RoundNums |-> CTPlan(rounds[k], now)]
           lastDone == Max0(DoneRounds)
           l == [Idle EXCEPT !.t = now, !.mw1 = match.wins1, !.mw2 = match.wins2,
                             !.plan = plan, !.ld = lastDone,
                             !.ldAt = IF lastDone = 0 THEN NULL
                                      ELSE rounds[lastDone].updated_at]
       IN IF Todo(plan) # {} THEN Goto(p, "ct_sweep", l) ELSE CTAfterLoop(p, l)
    /\ UNCHANGED <<now, match, rounds, forfeits, requests>>

\* The loop's next update of a round, by id: the phase advance, or
\* {phase: "done", result}.
CtSweep(p) ==
    /\ pc[p] = "ct_sweep"
    /\ LET l == loc[p]
           k == Min(Todo(l.plan))
           plan == l.plan[k]
           left == [l.plan EXCEPT ![k] = NoPlan]
       IN
        /\ SweepWrite(k, plan)
        /\ Goto(p, IF plan.kind = "forfeit" /\ plan.result # 0 THEN "ct_wins"
                   ELSE IF Todo(left) # {} THEN "ct_sweep" ELSE "ct_next",
                [l EXCEPT !.plan = left, !.res = plan.result])
    /\ UNCHANGED <<now, match, requests>>

\* update matches set wins1 = (match.wins1 || 0) + 1, or the same for wins2,
\* with the wins read at the start.
CtWins(p) ==
    /\ pc[p] = "ct_wins"
    /\ LET l == loc[p] IN
        /\ match' = IF l.res = 1 THEN [match EXCEPT !.wins1 = l.mw1 + 1]
                    ELSE [match EXCEPT !.wins2 = l.mw2 + 1]
        /\ Goto(p, IF Todo(l.plan) # {} THEN "ct_sweep" ELSE "ct_next", l)
    /\ UNCHANGED <<now, rounds, forfeits, requests>>

\* The selects after the loop's last update.
CtNext(p) ==
    /\ pc[p] = "ct_next"
    /\ CTAfterLoop(p, loc[p])
    /\ UNCHANGED <<now, match, rounds, forfeits, requests>>

\* insert the next round in commit phase, commit_deadline = now + 30_000.
CtInsert(p) ==
    /\ pc[p] = "ct_insert"
    /\ InsertRound(loc[p].ld + 1,
           [NoRow EXCEPT !.phase = "commit",
                         !.commit_deadline = loc[p].t + COMMIT_WINDOW])
    /\ Goto(p, "ct_final", loc[p])
    /\ UNCHANGED <<now, match, forfeits, requests>>

\* The select after the insert.
CtFinal(p) ==
    /\ pc[p] = "ct_final"
    /\ CTFinal(p, loc[p])
    /\ UNCHANGED <<now, match, rounds, forfeits, requests>>

\* update matches set status = "ready_to_settle", winner_address.
CtStatus(p) ==
    /\ pc[p] = "ct_status"
    /\ match' = [match EXCEPT !.status = "ready_to_settle",
                              !.winner_address =
                                  IF loc[p].w1 >= NeededWins(match.best_of) THEN 1 ELSE 2]
    /\ Return(p)
    /\ UNCHANGED <<now, rounds, forfeits, requests>>

checkAndResolveTimeouts(p) ==
    \/ CtStart(p)
    \/ CtSweep(p)
    \/ CtWins(p)
    \/ CtNext(p)
    \/ CtInsert(p)
    \/ CtFinal(p)
    \/ CtStatus(p)


\* ---------------------------------------------------------------------------
\* POST /api/match/commit
\* ---------------------------------------------------------------------------

\* select the match (INVALID_STATE unless in_progress); 1 <= roundNumber <=
\* best_of; select the rounds before it (ROUND_PROGRESSION_ERROR unless each
\* is done); select the round (INVALID_PHASE, ALREADY_COMMITTED,
\* DEADLINE_PASSED).
RcAccepts(player, n) ==
    LET r == rounds[n] IN
    /\ match.status = "in_progress"
    /\ n \in 1..match.best_of
    /\ \A k \in 1..(n - 1) : Exists(rounds[k]) => rounds[k].phase = "done"
    /\ Exists(r) => /\ r.phase = "commit"
                    /\ CommitOf(r, player) = NULL
                    /\ r.commit_deadline # NULL => ~(now > r.commit_deadline)

\* The request arrives and passes the checks.
RcRead(p, player, n, digest) ==
    /\ FreeSlot(p)
    /\ requests < MaxRequests
    /\ requests' = requests + 1
    /\ ~isPlaceholder(digest)
    /\ RcAccepts(player, n)
    /\ Goto(p, "rc_write",
            [Idle EXCEPT !.player = player, !.n = n, !.val = digest,
                         !.found = Exists(rounds[n])])
    /\ UNCHANGED <<now, match, rounds, forfeits>>

\* update the round by id: the commit column and commit_deadline = now + 30 s;
\* or insert the round.
RcWrite(p) ==
    /\ pc[p] = "rc_write"
    /\ LET l == loc[p] IN
        /\ IF l.found
           THEN rounds' = [rounds EXCEPT ![l.n] =
                    IF l.player = 1
                    THEN [@ EXCEPT !.commit1 = l.val,
                                   !.commit_deadline = now + COMMIT_WINDOW,
                                   !.updated_at = now]
                    ELSE [@ EXCEPT !.commit2 = l.val,
                                   !.commit_deadline = now + COMMIT_WINDOW,
                                   !.updated_at = now]]
           ELSE InsertRound(l.n,
                    IF l.player = 1
                    THEN [NoRow EXCEPT !.commit1 = l.val, !.phase = "commit",
                                       !.commit_deadline = now + COMMIT_WINDOW]
                    ELSE [NoRow EXCEPT !.commit2 = l.val, !.phase = "commit",
                                       !.commit_deadline = now + COMMIT_WINDOW])
        /\ Return(p)
    /\ UNCHANGED <<now, match, forfeits, requests>>

commitRoute(p) ==
    \/ \E player \in Players, n \in ClientRounds, digest \in SentDigests :
          RcRead(p, player, n, digest)
    \/ RcWrite(p)

\* ---------------------------------------------------------------------------
\* POST /api/match/reveal
\* ---------------------------------------------------------------------------

\* select the match (INVALID_STATE unless in_progress) and the round:
\* NOT_FOUND, INVALID_PHASE, NOT_COMMITTED, ALREADY_REVEALED, INVALID_REVEAL,
\* DEADLINE_PASSED.
RvAccepts(player, n, move, salt) ==
    LET r == rounds[n] IN
    /\ match.status = "in_progress"
    /\ Exists(r)
    /\ r.phase \in {"commit", "reveal"}
    /\ CommitOf(r, player) # NULL
    /\ MoveOf(r, player) = NULL
    /\ VerifyReveal(move, salt, CommitOf(r, player))
    /\ r.reveal_deadline # NULL => ~(now > r.reveal_deadline)

\* The request arrives and passes the checks.
RvRead(p, player, n, move, salt) ==
    /\ FreeSlot(p)
    /\ requests < MaxRequests
    /\ requests' = requests + 1
    /\ RvAccepts(player, n, move, salt)
    /\ Goto(p, "rv_move",
            [Idle EXCEPT !.player = player, !.n = n, !.val = move,
                         !.mw1 = match.wins1, !.mw2 = match.wins2,
                         !.found = (rounds[n].reveal_deadline # NULL)])
    /\ UNCHANGED <<now, match, rounds, forfeits>>

\* update the round by id: the move, phase = "reveal", and reveal_deadline =
\* now + 30 s if the round read had none.
RvWriteMove(p) ==
    /\ pc[p] = "rv_move"
    /\ LET l == loc[p]
           rdl(old) == IF l.found THEN old ELSE now + REVEAL_WINDOW
       IN rounds' = [rounds EXCEPT ![l.n] =
            IF l.player = 1
            THEN [@ EXCEPT !.move1 = l.val, !.phase = "reveal",
                           !.reveal_deadline = rdl(@), !.updated_at = now]
            ELSE [@ EXCEPT !.move2 = l.val, !.phase = "reveal",
                           !.reveal_deadline = rdl(@), !.updated_at = now]]
    /\ Goto(p, "rv_check", loc[p])
    /\ UNCHANGED <<now, match, forfeits, requests>>

\* select move1, move2 of the round.
RvCheck(p) ==
    /\ pc[p] = "rv_check"
    /\ LET r == rounds[loc[p].n] IN
       IF r.move1 # NULL /\ r.move2 # NULL
       THEN Goto(p, "rv_result", WithResult(loc[p], r))
       ELSE Return(p)
    /\ UNCHANGED <<now, match, rounds, forfeits, requests>>

\* update the round: result, phase = "done".
RvResult(p) ==
    /\ pc[p] = "rv_result"
    /\ rounds' = [rounds EXCEPT ![loc[p].n] =
            [@ EXCEPT !.result = loc[p].res, !.phase = "done", !.updated_at = now]]
    /\ Goto(p, "rv_wins", loc[p])
    /\ UNCHANGED <<now, match, forfeits, requests>>

\* update matches set wins1 = newWins1, wins2 = newWins2.
RvWins(p) ==
    /\ pc[p] = "rv_wins"
    /\ match' = [match EXCEPT !.wins1 = loc[p].w1, !.wins2 = loc[p].w2]
    /\ IF HasWinner(loc[p])
       THEN Goto(p, "rv_status", loc[p])
       ELSE Return(p)
    /\ UNCHANGED <<now, rounds, forfeits, requests>>

\* update matches set status = "ready_to_settle", winner_address.
RvStatus(p) ==
    /\ pc[p] = "rv_status"
    /\ match' = [match EXCEPT !.status = "ready_to_settle",
                              !.winner_address =
                                  IF loc[p].w1 >= NeededWins(match.best_of) THEN 1 ELSE 2]
    /\ Return(p)
    /\ UNCHANGED <<now, rounds, forfeits, requests>>

revealRoute(p) ==
    \/ \E player \in Players, n \in ClientRounds, move \in PlayedMoves, salt \in Salts :
          RvRead(p, player, n, move, salt)
    \/ RvWriteMove(p)
    \/ RvCheck(p)
    \/ RvResult(p)
    \/ RvWins(p)
    \/ RvStatus(p)

\* ---------------------------------------------------------------------------
\* Settlement: the Result Record, the players' signatures over it, and the
\* handlers that store and return them.
\* ---------------------------------------------------------------------------

\* computeTranscriptHash: keccak256 of the rounds with phase = "done", each as
\* "round_number:result", with best_of and the winner (the match id, the
\* stake and the nonce are the same in every call for one match).  An
\* injective encoding of that payload.
computeTranscriptHash(rs, bestOf, winner) ==
    LET code(k) == IF rs[k].phase # "done" THEN 0
                   ELSE IF rs[k].result = NULL THEN 4
                   ELSE rs[k].result + 2
        listed == code(1) + 5 * (IF MaxBestOf >= 2 THEN code(2) ELSE 0)
                          + 25 * (IF MaxBestOf >= 3 THEN code(3) ELSE 0)
    IN (listed * 8 + bestOf) * 3 + (IF winner = NULL THEN 0 ELSE winner)

\* buildMatchResult(match, rounds): the struct both players sign.
buildMatchResult(m, rs) ==
    [winner |-> m.winner_address,
     bestOf |-> m.best_of,
     wins1 |-> m.wins1,
     wins2 |-> m.wins2,
     transcriptHash |-> computeTranscriptHash(rs, m.best_of, m.winner_address)]

\* The EIP-712 hash of a MatchResult: an injective encoding of its fields.
hashStruct(R) ==
    ((R.transcriptHash * 3 + (IF R.winner = NULL THEN 0 ELSE R.winner)) * 8
        + R.wins1) * 8 + R.wins2

\* A signature of key `who` over the hash h; one key can produce several.
\* Key 3 belongs to neither player.
Sign(who, h, variant) == (h * 4 + who) * NSigVariants + variant

\* A signature string that is not 0x + 130 hex characters.
MalformedSig == -1

\* recoverTypedDataAddress: the signer when the signature is over h, and an
\* address that is nobody's otherwise.
recoverTypedDataAddress(sig, h) ==
    IF (sig \div NSigVariants) \div 4 = h THEN (sig \div NSigVariants) % 4 ELSE 0

\* A check that takes every well-formed signature.
AcceptWellFormed(sig, R, expectedSigner) == sig # MalformedSig

verifyMatchResultSignature(sig, R, expectedSigner) ==
    recoverTypedDataAddress(sig, hashStruct(R)) = expectedSigner

\* The Result Record of the rows as they are.
ResultRecord == buildMatchResult(match, rounds)

\* The signatures a client may send as `player`: the player's own over the
\* Result Record, the player's own over a record with the other player as
\* the winner, the other player's over the Result Record, and a string that
\* is no signature.
SubmittedSigs(player) ==
    {Sign(player, hashStruct(ResultRecord), v) : v \in 0..(NSigVariants - 1)}
      \cup {Sign(player,
                 hashStruct([ResultRecord EXCEPT !.winner = 3 - match.winner_address]),
                 0),
            Sign(3 - player, hashStruct(ResultRecord), 0),
            MalformedSig}

\* A transcriptHash that is 0x + 64 hex characters, and one that is not.
GoodTranscript == 1
MalformedTranscript == -1

SigOf(m, player) == IF player = 1 THEN m.sig1 ELSE m.sig2

StoreSig(player, sig) ==
    match' = IF player = 1 THEN [match EXCEPT !.sig1 = sig]
             ELSE [match EXCEPT !.sig2 = sig]

\* The match has been decided by played rounds and went the distance: the
\* loser took the first rounds, the winner the wins needed after them.
InitSettle ==
    /\ now = MaxTime
    /\ \E b \in BestOfs, w \in Players, lost \in 0..MaxBestOf :
          /\ lost = NeededWins(b) - 1
          /\ match = [status |-> "ready_to_settle", best_of |-> b,
                      wins1 |-> IF w = 1 THEN NeededWins(b) ELSE lost,
                      wins2 |-> IF w = 2 THEN NeededWins(b) ELSE lost,
                      winner_address |-> w,
                      sig1 |-> NULL, sig2 |-> NULL, transcript_hash |-> NULL]
          /\ rounds = [k \in RoundNums |->
                LET m1 == IF (k <= lost) = (w = 2) THEN 2 ELSE 1
                    m2 == 3 - m1
                IN IF k <= lost + NeededWins(b)
                   THEN [phase |-> "done",
                         commit1 |-> Keccak(m1, 1), commit2 |-> Keccak(m2, 1),
                         commit1_hex |-> Keccak(m1, 1), commit2_hex |-> Keccak(m2, 1),
                         move1 |-> m1, move2 |-> m2,
                         result |-> getRoundResult(m1, m2),
                         commit_deadline |-> COMMIT_WINDOW,
                         reveal_deadline |-> COMMIT_WINDOW + PHASE_BUFFER + REVEAL_WINDOW,
                         updated_at |-> MaxTime]
                   ELSE NoRow]
    /\ pc = [p \in Procs |-> "idle"]
    /\ loc = [p \in Procs |-> Idle]
    /\ forfeits = [k \in RoundNums |-> 0]
    /\ requests = 0
    /\ escrow = EscrowDeployed
    /\ arena = ArenaDeployed

\* ---- POST /api/match/finalize

\* select the match (INVALID_STATE unless ready_to_settle / finished, or with
\* no winner) and the rounds; buildMatchResult; a malformed transcriptHash is
\* BAD_REQUEST.
FzAccepts(th) ==
    /\ match.status = "ready_to_settle"
    /\ match.winner_address # NULL
    /\ th # MalformedTranscript

\* What the response carries of the signatures: both, or none.
FzReply(l, sig1Now, sig2Now) ==
    LET hasBothSigs == sig1Now # NULL /\ sig2Now # NULL IN
    [Idle EXCEPT !.out1 = IF hasBothSigs THEN sig1Now ELSE NULL,
                 !.out2 = IF hasBothSigs THEN sig2Now ELSE NULL]

\* The signature checks, after the transcript_hash update if there was one:
\* no signature, a malformed or unverified one (BAD_REQUEST), or a verified
\* one that is stored next.
FzCheckSig(p, l, wrote) ==
    IF l.sig = NULL
    THEN Goto(p, "fz_reply", FzReply(l, l.sig1, l.sig2))
    ELSE IF l.sig = MalformedSig
            \/ ~verifyMatchResultSignature(l.sig, ResultRecord, l.player)
    THEN wrote /\ Goto(p, "fz_reject", Idle)
    ELSE Goto(p, "fz_sig", l)

FzRead(p, player, sig, th) ==
    /\ FreeSlot(p)
    /\ FzAccepts(th)
    /\ LET l == [Idle EXCEPT !.player = player, !.sig = sig, !.th = th,
                             !.sig1 = IF player = 1 /\ sig # NULL THEN NULL ELSE match.sig1,
                             !.sig2 = IF player = 2 /\ sig # NULL THEN NULL ELSE match.sig2]
       IN IF th # NULL THEN Goto(p, "fz_th", l) ELSE FzCheckSig(p, l, FALSE)
    /\ UNCHANGED <<now, match, rounds, forfeits, requests>>

\* update matches set transcript_hash; then the signature checks.
FzWriteTh(p) ==
    /\ pc[p] = "fz_th"
    /\ match' = [match EXCEPT !.transcript_hash = loc[p].th]
    /\ FzCheckSig(p, [loc[p] EXCEPT !.th = NULL], TRUE)
    /\ UNCHANGED <<now, rounds, forfeits, requests>>

\* update matches set sig1 (or sig2) = signature; sig1Now and sig2Now are the
\* signature sent and the other slot as read at the start (the locals keep of
\* the slots read what the response can use).
FzWriteSig(p) ==
    /\ pc[p] = "fz_sig"
    /\ StoreSig(loc[p].player, loc[p].sig)
    /\ LET l == loc[p] IN
       Goto(p, "fz_reply",
            FzReply(l, IF l.player = 1 THEN l.sig ELSE l.sig1,
                       IF l.player = 2 THEN l.sig ELSE l.sig2))
    /\ UNCHANGED <<now, rounds, forfeits, requests>>

\* The response is sent: 200, or 400 BAD_REQUEST.
FzRespond(p) ==
    /\ pc[p] \in {"fz_reply", "fz_reject"}
    /\ Return(p)
    /\ UNCHANGED <<now, match, rounds, forfeits, requests>>

finalizeRoute(p) ==
    \/ \E player \in Players, th \in {NULL, GoodTranscript, MalformedTranscript} :
       \E sig \in SubmittedSigs(player) \cup {NULL} :
          FzRead(p, player, sig, th)
    \/ FzWriteTh(p)
    \/ FzWriteSig(p)
    \/ FzRespond(p)

\* ---- the socket "finalize" event

\* BAD_REQUEST for a malformed signature; select the match (INVALID_STATE
\* unless ready_to_settle / finished) and the rounds; INVALID_SIGNATURE
\* unless the signature verifies.
SfAccepts(player, sig) ==
    /\ sig # MalformedSig
    /\ match.status = "ready_to_settle"
    /\ verifyMatchResultSignature(sig, ResultRecord, player)

SfRead(p, player, sig) ==
    /\ FreeSlot(p)
    /\ SfAccepts(player, sig)
    /\ Goto(p, "sf_sig", [Idle EXCEPT !.player = player, !.sig = sig])
    /\ UNCHANGED <<now, match, rounds, forfeits, requests>>

\* update matches set sig1 (or sig2) = signature.
SfWriteSig(p) ==
    /\ pc[p] = "sf_sig"
    /\ StoreSig(loc[p].player, loc[p].sig)
    /\ Goto(p, "sf_emit", Idle)
    /\ UNCHANGED <<now, rounds, forfeits, requests>>

\* select sig1, sig2: with both, emit signatures_ready with both of them.
SfEmit(p) ==
    /\ pc[p] = "sf_emit"
    /\ Goto(p, "sf_reply", FzReply(loc[p], match.sig1, match.sig2))
    /\ UNCHANGED <<now, match, rounds, forfeits, requests>>

SfRespond(p) ==
    /\ pc[p] = "sf_reply"
    /\ Return(p)
    /\ UNCHANGED <<now, match, rounds, forfeits, requests>>

socketFinalize(p) ==
    \/ \E player \in Players : \E sig \in SubmittedSigs(player) : SfRead(p, player, sig)
    \/ SfWriteSig(p)
    \/ SfEmit(p)
    \/ SfRespond(p)

\* ---- GET /api/match/signatures

\* select the match (INVALID_STATE unless ready_to_settle / finished, or with
\* no winner); the response carries sig1 and sig2 as they are stored.
SgRead(p, player) ==
    /\ FreeSlot(p)
    /\ match.status = "ready_to_settle"
    /\ match.winner_address # NULL
    /\ Goto(p, "sg_reply", [Idle EXCEPT !.out1 = match.sig1, !.out2 = match.sig2])
    /\ UNCHANGED <<now, match, rounds, forfeits, requests>>

SgRespond(p) ==
    /\ pc[p] = "sg_reply"
    /\ Return(p)
    /\ UNCHANGED <<now, match, rounds, forfeits, requests>>

signaturesRoute(p) ==
    \/ \E player \in Players : SgRead(p, player)
    \/ SgRespond(p)

\* The settlement of a decided match.
NextSettle ==
    \/ \E p \in Procs : finalizeRoute(p)
    \/ \E p \in Procs : socketFinalize(p)
    \/ \E p \in Procs : signaturesRoute(p)

SpecSettle == InitSettle /\ [][NextSettle]_vars

\* ---------------------------------------------------------------------------
\* The socket backend.
NextBackend ==
    \/ Tick
    \/ \E p \in Procs : reconcileRounds(p)
    \/ \E p \in Procs : socketCommit(p)
    \/ \E p \in Procs : socketReveal(p)

SpecBackend == Init /\ [][NextBackend]_vars

\* The HTTP API.
NextApi ==
    \/ Tick
    \/ \E p \in Procs : checkAndResolveTimeouts(p)
    \/ \E p \in Procs : commitRoute(p)
    \/ \E p \in Procs : revealRoute(p)

SpecApi == Init /\ [][NextApi]_vars

\* The handler steps that the server runs to completion once a request is in,
\* and the polls of the state route, which keep coming; time advances.
\* Whether a player sends a commit or a reveal is left open.
LiveApi ==
    /\ SpecApi
    /\ WF_vars(Tick)
    /\ \A p \in Procs :
          /\ WF_vars(checkAndResolveTimeouts(p))
          /\ WF_vars(RcWrite(p))
          /\ WF_vars(RvWriteMove(p) \/ RvCheck(p) \/ RvResult(p) \/ RvWins(p) \/ RvStatus(p))


\* ---------------------------------------------------------------------------
\* The escrow contract RPSArena (stakeForMatch, settleMatch).  A transaction
\* is atomic: it either takes effect as a whole or reverts, and a revert
\* leaves only its reason in `last`.
\* ---------------------------------------------------------------------------

\* The scores two players may agree on: who won (1 = player1, 2 = player2,
\* 0 = draw) and the rounds each won.
Scores ==
    { [won |-> 1, wins1 |-> 3, wins2 |-> 1],
      [won |-> 2, wins1 |-> 1, wins2 |-> 3],
      [won |-> 0, wins1 |-> 2, wins2 |-> 2] }

\* The MatchResult structs for match id `id` that agree with what is locked
\* for it.
AgreedResults(id) ==
    LET m == escrow.lockedMatches[id] IN
    { [matchId |-> id, player1 |-> m.player1, player2 |-> m.player2,
       winner |-> IF sc.won = 1 THEN m.player1
                  ELSE IF sc.won = 2 THEN m.player2 ELSE 0,
       stake |-> m.stake, bestOf |-> DEFAULT_BEST_OF,
       wins1 |-> sc.wins1, wins2 |-> sc.wins2,
       transcriptHash |-> 1, nonce |-> 1] : sc \in Scores }

\* The structs a caller may pass besides: one field of an agreed result off.
OffResults(id) ==
    UNION { { [r EXCEPT !.player1 = 1 + (r.player1 % NAddrs)],
              [r EXCEPT !.stake = r.stake + 1],
              [r EXCEPT !.bestOf = 3],
              [r EXCEPT !.wins1 = 4],
              [r EXCEPT !.wins1 = r.wins2, !.wins2 = r.wins1],
              [r EXCEPT !.winner = 1 + (r.player1 % NAddrs)] } : r \in AgreedResults(id) }

\* An ECDSA signature: the key that made it and the typed data it is over (the
\* domain's version and the struct).
SignTyped(signer, version, result) ==
    [signer |-> signer, version |-> version, over |-> result]

\* _hashTypedDataV4(structHash) under EIP712("RPSArena", "2"), and
\* ECDSA.recover: the signer when the signature is over that digest, an
\* address that is nobody's otherwise.
_recoverSigner(result, signature) ==
    IF signature.over = result /\ signature.version = CONTRACT_DOMAIN_VERSION
    THEN signature.signer ELSE 0

\* The signatures a caller may pass for player `a` with the struct r: a's own
\* over r, the next account's over r, and a's own over r with the winner
\* changed.
PassedSigs(r, a) ==
    { SignTyped(a, CONTRACT_DOMAIN_VERSION, r),
      SignTyped(1 + (a % NAddrs), CONTRACT_DOMAIN_VERSION, r),
      SignTyped(a, CONTRACT_DOMAIN_VERSION, [r EXCEPT !.winner = 0, !.wins1 = 2, !.wins2 = 2]) }

\* _validateResultScores: the revert reason, or "ok".
_validateResultScores(result) ==
    IF result.bestOf = 0 THEN "InvalidResult"
    ELSE IF result.bestOf # DEFAULT_BEST_OF THEN "InvalidResult"
    ELSE IF result.wins1 > result.bestOf \/ result.wins2 > result.bestOf THEN "InvalidResult"
    ELSE IF result.wins1 > 3 \/ result.wins2 > 3 THEN "InvalidResult"
    ELSE IF result.wins1 + result.wins2 > result.bestOf THEN "InvalidResult"
    ELSE IF result.winner = 0
         THEN (IF result.wins1 # result.wins2 THEN "InvalidResult" ELSE "ok")
    ELSE IF result.winner = result.player1
         THEN (IF result.wins1 <= result.wins2 THEN "InvalidResult" ELSE "ok")
    ELSE IF result.winner = result.player2
         THEN (IF result.wins2 <= result.wins1 THEN "InvalidResult" ELSE "ok")
    ELSE "InvalidWinner"

\* What stakeForMatch does with msg.value = value: the revert reason, or "ok".
StakeOutcome(id, value) ==
    LET m == escrow.lockedMatches[id] IN
    IF value = 0 THEN "ZeroAmount"
    ELSE IF value < MIN_STAKE THEN "StakeTooSmall"
    ELSE IF escrow.settledMatch[id] THEN "MatchAlreadySettled"
    ELSE IF m.player1 = 0 THEN "ok"
    ELSE IF m.player2 = 0
         THEN (IF m.stake # value THEN "StakeMismatch" ELSE "ok")
    ELSE "MatchNotReady"

stakeForMatch(caller, id, value) ==
    /\ value <= escrow.wallet[caller]
    /\ LET m == escrow.lockedMatches[id]
           out == StakeOutcome(id, value)
           tx == [fn |-> "stakeForMatch", matchId |-> id, winner |-> 0, outcome |-> out]
       IN escrow' =
            IF out # "ok" THEN [escrow EXCEPT !.last = tx]
            ELSE [escrow EXCEPT
                    !.lockedMatches[id] =
                        IF m.player1 = 0
                        THEN [m EXCEPT !.player1 = caller, !.stake = value,
                                       !.player1Locked = TRUE]
                        ELSE [m EXCEPT !.player2 = caller, !.player2Locked = TRUE],
                    !.balance = @ + value,
                    !.wallet[caller] = @ - value,
                    !.last = tx]
    /\ UNCHANGED <<now, match, rounds, pc, loc, forfeits, requests, arena>>

\* Payouts that give the winner one stake instead of the pot.
PayoutsOneStake(m, result) ==
    IF result.winner = 0 THEN <<m.stake, m.stake>>
    ELSE IF result.winner = m.player1 THEN <<m.stake, 0>>
    ELSE <<0, m.stake>>

\* The payouts of a settlement: to player1 and to player2.
Payouts(m, result) ==
    IF result.winner = 0 THEN <<m.stake, m.stake>>
    ELSE IF result.winner = m.player1 THEN <<m.stake * 2, 0>>
    ELSE <<0, m.stake * 2>>

\* A settleMatch that does not look at settledMatch[matchId].
SettleOutcomeNoReplayCheck(result, sigPlayer1, sigPlayer2, ok1, ok2) ==
    LET m == escrow.lockedMatches[result.matchId]
        pay == Payouts(m, result)
    IN
    IF m.player1 = 0 \/ m.player2 = 0 THEN "MatchNotReady"
    ELSE IF ~m.player1Locked \/ ~m.player2Locked THEN "MatchNotReady"
    ELSE IF m.player1 # result.player1 \/ m.player2 # result.player2 THEN "InvalidPlayers"
    ELSE IF result.stake # m.stake THEN "StakeMismatch"
    ELSE IF _validateResultScores(result) # "ok" THEN _validateResultScores(result)
    ELSE IF \/ _recoverSigner(result, sigPlayer1) # result.player1
            \/ _recoverSigner(result, sigPlayer2) # result.player2 THEN "InvalidResult"
    ELSE IF result.winner \notin {0, m.player1, m.player2} THEN "InvalidWinner"
    ELSE IF pay[1] > 0 /\ (~ok1 \/ escrow.balance < pay[1]) THEN "TransferFailed"
    ELSE IF pay[2] > 0 /\ (~ok2 \/ escrow.balance - pay[1] < pay[2]) THEN "TransferFailed"
    ELSE "ok"

\* What settleMatch does: the revert reason, or "ok".  ok1 and ok2 say
\* whether player1's and player2's account accepts the transfer.
SettleOutcome(result, sigPlayer1, sigPlayer2, ok1, ok2) ==
    LET m == escrow.lockedMatches[result.matchId]
        pay == Payouts(m, result)
    IN
    IF escrow.settledMatch[result.matchId] THEN "MatchAlreadySettled"
    ELSE IF m.player1 = 0 \/ m.player2 = 0 THEN "MatchNotReady"
    ELSE IF ~m.player1Locked \/ ~m.player2Locked THEN "MatchNotReady"
    ELSE IF m.player1 # result.player1 \/ m.player2 # result.player2 THEN "InvalidPlayers"
    ELSE IF result.stake # m.stake THEN "StakeMismatch"
    ELSE IF _validateResultScores(result) # "ok" THEN _validateResultScores(result)
    ELSE IF \/ _recoverSigner(result, sigPlayer1) # result.player1
            \/ _recoverSigner(result, sigPlayer2) # result.player2 THEN "InvalidResult"
    ELSE IF result.winner \notin {0, m.player1, m.player2} THEN "InvalidWinner"
    ELSE IF pay[1] > 0 /\ (~ok1 \/ escrow.balance < pay[1]) THEN "TransferFailed"
    ELSE IF pay[2] > 0 /\ (~ok2 \/ escrow.balance - pay[1] < pay[2]) THEN "TransferFailed"
    ELSE "ok"

settleMatch(result, sigPlayer1, sigPlayer2, ok1, ok2) ==
    /\ LET id == result.matchId
           m == escrow.lockedMatches[id]
           pay == Payouts(m, result)
           out == SettleOutcome(result, sigPlayer1, sigPlayer2, ok1, ok2)
           tx == [fn |-> "settleMatch", matchId |-> id, winner |-> result.winner,
                  outcome |-> out]
       IN escrow' =
            IF out # "ok" THEN [escrow EXCEPT !.last = tx]
            ELSE [escrow EXCEPT
                    !.settledMatch[id] = TRUE,
                    !.lockedMatches[id].settled = TRUE,
                    !.balance = @ - pay[1] - pay[2],
                    !.wallet = [a \in Addrs |->
                                  escrow.wallet[a]
                                    + (IF a = m.player1 THEN pay[1] ELSE 0)
                                    + (IF a = m.player2 THEN pay[2] ELSE 0)],
                    !.paid[id] = @ + pay[1] + pay[2],
                    !.settles[id] = @ + 1,
                    !.last = tx]
    /\ UNCHANGED <<now, match, rounds, pc, loc, forfeits, requests, arena>>

\* The settleMatch transactions sent: an agreed result with both players'
\* signatures or with one signature that is not the player's, and a result
\* that is off in one field with both players' signatures.
settleCalls ==
    \E id \in MatchIds, ok1 \in BOOLEAN, ok2 \in BOOLEAN :
       \/ \E r \in AgreedResults(id) :
          \E s1 \in PassedSigs(r, r.player1), s2 \in PassedSigs(r, r.player2) :
             settleMatch(r, s1, s2, ok1, ok2)
       \/ \E r \in OffResults(id) :
             settleMatch(r, SignTyped(r.player1, CONTRACT_DOMAIN_VERSION, r),
                            SignTyped(r.player2, CONTRACT_DOMAIN_VERSION, r), ok1, ok2)

stakeCalls ==
    \E caller \in Addrs, id \in MatchIds, value \in 0..InitialFunds :
        stakeForMatch(caller, id, value)

InitEscrow == Init /\ match.best_of = 1

NextEscrow ==
    \/ stakeCalls
    \/ settleCalls

SpecEscrow == InitEscrow /\ [][NextEscrow]_vars

\* ---------------------------------------------------------------------------
\* The game contract RPSArena (enqueue, commitMove, revealMove, the timeout
\* claims).  A transaction that reverts changes nothing and is no step.
\* ---------------------------------------------------------------------------

serviceVars == <<now, match, rounds, pc, loc, forfeits, requests>>

\* keccak256(abi.encodePacked(matchId, round, player, move, salt)): an
\* injective encoding, never bytes32(0).
_computeCommit(matchId, round, player, move, salt) ==
    ((((matchId * 8 + round) * 4 + player) * 4 + move) * (NSalts + 1)) + salt

\* 1 if m1 beats m2, -1 if m2 beats m1, 0 for equal moves (1 = Rock,
\* 2 = Paper, 3 = Scissors).
_compareMoves(m1, m2) ==
    IF m1 = m2 THEN 0
    ELSE IF m1 = 1 /\ m2 = 3 THEN 1
    ELSE IF m1 = 2 /\ m2 = 1 THEN 1
    ELSE IF m1 = 3 /\ m2 = 2 THEN 1
    ELSE -1

\* The rounds of match id that a transaction has touched, and those of them
\* not yet decided.
Begun(id) == {r \in ArenaRounds : arena.rounds[id][r].commitDeadline # 0}
Open(id) == {r \in Begun(id) : ~arena.rounds[id][r].decided}

\* The round numbers callers use: the contract treats all five alike, so
\* rounds are begun in the order 1, 2, ..., at most MaxOpenRounds at a time.
CallerRounds(id) ==
    {r \in ArenaRounds :
        \/ r \in Begun(id)
        \/ /\ r = Cardinality(Begun(id)) + 1
           /\ Cardinality(Open(id)) < MaxOpenRounds
           /\ arena.begun < MaxNewRounds}

\* _maybeFinishMatch with WINS_TO_FINISH = 1: any round win ends the match.
FinishesOnFirstWin(m) ==
    /\ m.status # "Finished" /\ ~m.settled
    /\ m.wins1 >= 1 \/ m.wins2 >= 1 \/ m.roundsPlayed >= MAX_ROUNDS

\* The condition under which _maybeFinishMatch finishes and settles.
Finishes(m) ==
    /\ m.status # "Finished" /\ ~m.settled
    /\ m.wins1 >= WINS_TO_FINISH \/ m.wins2 >= WINS_TO_FINISH
          \/ m.roundsPlayed >= MAX_ROUNDS

\* A _settle that pays the whole pot to player1 on equal wins.
ArenaPayoutsNoRefund(m) ==
    IF m.wins1 >= m.wins2 THEN <<2 * m.wager, 0>>
    ELSE <<0, 2 * m.wager>>

\* _settle: the payouts to player1 and to player2.
ArenaPayouts(m) ==
    IF m.wins1 > m.wins2 THEN <<2 * m.wager, 0>>
    ELSE IF m.wins2 > m.wins1 THEN <<0, 2 * m.wager>>
    ELSE <<m.wager, m.wager>>

\* The end of a transaction that decided round `round` of match id, leaving
\* the match as m and the round as r: _maybeFinishMatch and, when it
\* finishes the match, _settle.  ok1 and ok2 say whether player1's and
\* player2's account accepts a transfer; a refused transfer reverts.
Decide(fn, id, round, m, r, ok1, ok2) ==
    LET pay == ArenaPayouts(m)
        rs == [arena.rounds EXCEPT ![id][round] = r]
        tx == [fn |-> fn, matchId |-> id]
    IN
    IF ~Finishes(m)
    THEN arena' = [arena EXCEPT !.matches[id] = m, !.rounds = rs, !.last = tx]
    ELSE /\ pay[1] > 0 => ok1 /\ arena.balance >= pay[1]
         /\ pay[2] > 0 => ok2 /\ arena.balance - pay[1] >= pay[2]
         /\ arena' = [arena EXCEPT
                !.matches[id] = [m EXCEPT !.status = "Finished", !.settled = TRUE],
                !.rounds = rs,
                !.balance = @ - pay[1] - pay[2],
                !.wallet = [a \in ArenaAddrs |->
                              arena.wallet[a]
                                + (IF a = m.player1 THEN pay[1] ELSE 0)
                                + (IF a = m.player2 THEN pay[2] ELSE 0)],
                !.paid[id] = @ + pay[1] + pay[2],
                !.last = tx]

\* enqueue(wager) with msg.value = wager: wait in the queue, or be matched
\* with the waiting player.
enqueue(caller) ==
    /\ arena.wallet[caller] >= WAGER
    /\ arena.waitingPlayer # caller
    /\ IF arena.waitingPlayer = 0
       THEN arena' = [arena EXCEPT
                !.waitingPlayer = caller,
                !.balance = @ + WAGER,
                !.wallet[caller] = @ - WAGER,
                !.last = [fn |-> "enqueue", matchId |-> 0]]
       ELSE /\ arena.nextMatchId <= NArenaMatches
            /\ arena' = [arena EXCEPT
                !.waitingPlayer = 0,
                !.nextMatchId = @ + 1,
                !.matches[arena.nextMatchId] =
                    [NoArenaMatch EXCEPT !.player1 = arena.waitingPlayer,
                                         !.player2 = caller,
                                         !.wager = WAGER],
                !.balance = @ + WAGER,
                !.wallet[caller] = @ - WAGER,
                !.last = [fn |-> "enqueue", matchId |-> arena.nextMatchId]]
    /\ UNCHANGED <<serviceVars, escrow>>

\* cancelEnqueue(wager): the waiting player takes the wager back.
cancelEnqueue(caller) ==
    /\ arena.waitingPlayer = caller
    /\ arena' = [arena EXCEPT
            !.waitingPlayer = 0,
            !.balance = @ - WAGER,
            !.wallet[caller] = @ + WAGER,
            !.last = [fn |-> "cancelEnqueue", matchId |-> 0]]
    /\ UNCHANGED <<serviceVars, escrow>>

commitMove(caller, id, round, commitHash) ==
    LET m == arena.matches[id]
        r == arena.rounds[id][round]
    IN
    /\ m.player1 # 0
    /\ m.status # "Finished"
    /\ caller \in {m.player1, m.player2}
    /\ ~(r.commitDeadline # 0 /\ arena.timestamp > r.commitDeadline)
    /\ IF caller = m.player1 THEN r.commit1 = 0 ELSE r.commit2 = 0
    /\ arena' = [arena EXCEPT
            !.rounds[id][round] =
                [(IF caller = m.player1 THEN [r EXCEPT !.commit1 = commitHash]
                                        ELSE [r EXCEPT !.commit2 = commitHash])
                   EXCEPT !.commitDeadline =
                            IF r.commitDeadline = 0
                            THEN arena.timestamp + PHASE_TIMEOUT ELSE @],
            !.matches[id].status = "WaitingCommits",
            !.begun = IF r.commitDeadline = 0 THEN @ + 1 ELSE @,
            !.last = [fn |-> "commitMove", matchId |-> id]]
    /\ UNCHANGED <<serviceVars, escrow>>

revealMove(caller, id, round, move, salt, ok1, ok2) ==
    LET m == arena.matches[id]
        r == arena.rounds[id][round]
        isP1 == caller = m.player1
        timed == [r EXCEPT !.revealDeadline =
                      IF @ = 0 THEN arena.timestamp + PHASE_TIMEOUT ELSE @]
        shown == IF isP1 THEN [timed EXCEPT !.move1 = move, !.revealed1 = TRUE]
                         ELSE [timed EXCEPT !.move2 = move, !.revealed2 = TRUE]
        waiting == [m EXCEPT !.status = "WaitingReveals"]
        result == _compareMoves(shown.move1, shown.move2)
        scored == [waiting EXCEPT
                     !.wins1 = IF result = 1 THEN @ + 1 ELSE @,
                     !.wins2 = IF result = -1 THEN @ + 1 ELSE @,
                     !.roundsPlayed = @ + 1]
    IN
    /\ move # 0
    /\ m.player1 # 0
    /\ m.status # "Finished"
    /\ caller \in {m.player1, m.player2}
    /\ r.commit1 # 0 /\ r.commit2 # 0
    /\ r.revealDeadline # 0 => arena.timestamp <= r.revealDeadline
    /\ IF isP1 THEN ~r.revealed1 /\ _computeCommit(id, round, m.player1, move, salt) = r.commit1
               ELSE ~r.revealed2 /\ _computeCommit(id, round, m.player2, move, salt) = r.commit2
    /\ IF shown.revealed1 /\ shown.revealed2 /\ ~shown.decided
       THEN Decide("revealMove", id, round, scored, [shown EXCEPT !.decided = TRUE], ok1, ok2)
       ELSE arena' = [arena EXCEPT
                !.matches[id] = waiting,
                !.rounds[id][round] = shown,
                !.last = [fn |-> "revealMove", matchId |-> id]]
    /\ UNCHANGED <<serviceVars, escrow>>

claimCommitTimeout(id, round, ok1, ok2) ==
    LET m == arena.matches[id]
        r == arena.rounds[id][round]
        p1Committed == r.commit1 # 0
        p2Committed == r.commit2 # 0
        scored == [m EXCEPT
                     !.wins1 = IF p1Committed /\ ~p2Committed THEN @ + 1 ELSE @,
                     !.wins2 = IF ~p1Committed /\ p2Committed THEN @ + 1 ELSE @,
                     !.roundsPlayed = @ + 1]
    IN
    /\ m.player1 # 0
    /\ m.status # "Finished"
    /\ ~(r.commitDeadline = 0 \/ arena.timestamp <= r.commitDeadline)
    /\ ~r.decided
    /\ Decide("claimCommitTimeout", id, round, scored, [r EXCEPT !.decided = TRUE], ok1, ok2)
    /\ UNCHANGED <<serviceVars, escrow>>

claimRevealTimeout(id, round, ok1, ok2) ==
    LET m == arena.matches[id]
        r == arena.rounds[id][round]
        scored == [m EXCEPT
                     !.wins1 = IF r.revealed1 /\ ~r.revealed2 THEN @ + 1 ELSE @,
                     !.wins2 = IF ~r.revealed1 /\ r.revealed2 THEN @ + 1 ELSE @,
                     !.roundsPlayed = @ + 1]
    IN
    /\ m.player1 # 0
    /\ m.status # "Finished"
    /\ ~(r.revealDeadline = 0 \/ arena.timestamp <= r.revealDeadline)
    /\ ~r.decided
    /\ Decide("claimRevealTimeout", id, round, scored, [r EXCEPT !.decided = TRUE], ok1, ok2)
    /\ UNCHANGED <<serviceVars, escrow>>

\* A block is mined PHASE_TIMEOUT later.
Mine ==
    /\ arena.timestamp + PHASE_TIMEOUT <= MaxBlockTime
    /\ arena' = [arena EXCEPT !.timestamp = @ + PHASE_TIMEOUT]
    /\ UNCHANGED <<serviceVars, escrow>>

\* The commit hashes a player sends for a round: the hash of a move and a
\* salt of the player's own.
commitCalls ==
    \E caller \in ArenaAddrs, id \in ArenaIds :
    \E round \in CallerRounds(id), move \in PlayedMoves, salt \in Salts :
        commitMove(caller, id, round, _computeCommit(id, round, caller, move, salt))

revealCalls ==
    \E caller \in ArenaAddrs, id \in ArenaIds, ok1 \in BOOLEAN, ok2 \in BOOLEAN :
    \E round \in CallerRounds(id), move \in PlayedMoves, salt \in Salts :
        revealMove(caller, id, round, move, salt, ok1, ok2)

commitTimeoutCalls ==
    \E id \in ArenaIds, ok1 \in BOOLEAN, ok2 \in BOOLEAN :
    \E round \in CallerRounds(id) :
        claimCommitTimeout(id, round, ok1, ok2)

revealTimeoutCalls ==
    \E id \in ArenaIds, ok1 \in BOOLEAN, ok2 \in BOOLEAN :
    \E round \in CallerRounds(id) :
        claimRevealTimeout(id, round, ok1, ok2)

queueCalls ==
    \E caller \in ArenaAddrs : enqueue(caller) \/ cancelEnqueue(caller)

\* A round that both players committed and revealed in the first block,
\* player1 with move m1 and player2 with m2.
PlayedRound(id, round, m1, m2) ==
    [commit1 |-> _computeCommit(id, round, 1, m1, 1),
     commit2 |-> _computeCommit(id, round, 2, m2, 1),
     move1 |-> m1, move2 |-> m2,
     commitDeadline |-> 1 + PHASE_TIMEOUT, revealDeadline |-> 1 + PHASE_TIMEOUT,
     revealed1 |-> TRUE, revealed2 |-> TRUE, decided |-> TRUE]

\* Match 1 between accounts 1 and 2 after w1 rounds won by player1 (Paper on
\* Rock), w2 won by player2 and d draws, all played in the first block.
Midgame(w1, w2, d) ==
    [ArenaDeployed EXCEPT
        !.matches[1] = [player1 |-> 1, player2 |-> 2, wager |-> WAGER,
                        roundsPlayed |-> w1 + w2 + d, wins1 |-> w1, wins2 |-> w2,
                        status |-> "WaitingReveals", settled |-> FALSE],
        !.rounds[1] = [r \in ArenaRounds |->
                          IF r <= w1 THEN PlayedRound(1, r, 2, 1)
                          ELSE IF r <= w1 + w2 THEN PlayedRound(1, r, 1, 2)
                          ELSE IF r <= w1 + w2 + d THEN PlayedRound(1, r, 1, 1)
                          ELSE NoArenaRound],
        !.nextMatchId = 2,
        !.balance = 2 * WAGER,
        !.wallet[1] = 0,
        !.wallet[2] = 0,
        !.last = [fn |-> "revealMove", matchId |-> 1]]

\* The contract as deployed, or with match 1 under way and not finished.
ArenaStarts ==
    {ArenaDeployed} \cup
    { Midgame(w[1], w[2], w[3]) :
        w \in { v \in (0..(WINS_TO_FINISH - 1)) \X (0..(WINS_TO_FINISH - 1))
                        \X (0..(MAX_ROUNDS - 1)) :
                   v[1] + v[2] + v[3] \in 1..(MAX_ROUNDS - 1) } }

InitArena ==
    /\ InitService
    /\ match.best_of = 1
    /\ escrow = EscrowDeployed
    /\ arena \in ArenaStarts

NextArena ==
    \/ Mine
    \/ queueCalls
    \/ commitCalls
    \/ revealCalls
    \/ commitTimeoutCalls
    \/ revealTimeoutCalls

SpecArena == InitArena /\ [][NextArena]_vars

\* ---------------------------------------------------------------------------
\* Properties
\* ---------------------------------------------------------------------------

\* Every round of the match has a resolved row.
AllRoundsResolved ==
    \A k \in 1..match.best_of : Exists(rounds[k]) /\ Resolved(rounds[k])

\* Neither win counter has reached wins-needed.
NobodyAtNeeded ==
    /\ match.wins1 < NeededWins(match.best_of)
    /\ match.wins2 < NeededWins(match.best_of)

Decided == match.status # "in_progress"

\* C1: in every reachable state, whatever the interleaving of reveal handlers
\* and sweeps, wins1 + wins2 is at most the number of resolved rounds.
C1_WinsWithinResolved ==
    match.wins1 + match.wins2 <= Cardinality(DoneRounds)

\* C2: with sweeps running concurrently, a timeout resolution (forfeit) is
\* written to a round at most once: only one sweep's forfeit lands.
C2_ForfeitLandsOnce ==
    \A k \in RoundNums : forfeits[k] <= 1

\* C3: a stored commitment is never overwritten: once a player's digest for a
\* round is stored, no step changes it.
C3_CommitNeverOverwritten ==
    [][\A k \in RoundNums, player \in Players :
          StoredHex(rounds[k], player) # NULL
             => StoredHex(rounds'[k], player) = StoredHex(rounds[k], player)]_vars

\* C4: a round is resolved at most once: once a round's outcome is recorded,
\* no step records a different outcome for it.
C4_ResolvedOnce ==
    [][\A k \in RoundNums :
          (Exists(rounds[k]) /\ rounds[k].result # NULL)
             => rounds'[k].result = rounds[k].result]_vars

\* C5: after a sweep has force-resolved a round for a timeout, no step (a
\* reveal that read the round before the sweep wrote included) changes the
\* round's outcome or its stored moves.
C5_ForfeitStands ==
    [][\A k \in RoundNums :
          forfeits[k] > 0
             => /\ rounds'[k].result = rounds[k].result
                /\ rounds'[k].move1 = rounds[k].move1
                /\ rounds'[k].move2 = rounds[k].move2]_vars

\* C6: once the match is decided, no step changes its winner field.
C6_WinnerSetOnce ==
    [][Decided => match'.winner_address = match.winner_address]_vars

\* C7: a move is stored in a round only when both players' commitments for
\* that round exist.
C7_MoveOnlyAfterBothCommits ==
    \A k \in RoundNums, player \in Players :
        MoveOf(rounds[k], player) # NULL
           => hasCommit(rounds[k], 1) /\ hasCommit(rounds[k], 2)

\* C8: whenever a move is stored for a player, it verifies (with some salt)
\* against the commitment stored for that player in that round just before.
C8_MoveVerifiesStoredCommit ==
    [][\A k \in RoundNums, player \in Players :
          (MoveOf(rounds'[k], player) # NULL
              /\ MoveOf(rounds'[k], player) # MoveOf(rounds[k], player))
             => \E salt \in Salts :
                   VerifyReveal(MoveOf(rounds'[k], player), salt,
                                StoredHex(rounds[k], player))]_vars

\* C9: while polls keep coming and time advances, an in-progress match is
\* eventually decided; stated from the states where every round of the match
\* is resolved already, so that no deadline is left to wait for.
C9_EventuallyDecided ==
    (match.status = "in_progress" /\ AllRoundsResolved) ~> Decided

\* C10: when the last handler in flight returns (every socket handler ends
\* with a sweep) and all N rounds are resolved with neither win counter at
\* wins-needed, the match is decided (with the winner unset).
C10_AllResolvedIsDecided ==
    [][(InFlight # {} /\ InFlight' = {} /\ AllRoundsResolved' /\ NobodyAtNeeded')
          => (Decided' /\ match'.winner_address = NULL)]_vars

\* C11: no round record exists beyond the round that decides the match: a
\* record of round k exists only if round k - 1 is resolved and the rounds
\* before k have left neither player with the wins needed.
C11_NoRoundBeyondDecider ==
    \A k \in 2..MaxBestOf :
        Exists(rounds[k])
           => /\ Exists(rounds[k - 1]) /\ Resolved(rounds[k - 1])
              /\ \A res \in {1, -1} :
                    Cardinality({j \in 1..(k - 1) : rounds[j].result = res})
                       < NeededWins(match.best_of)

\* const now = Date.now() of the backend sweep that the first slot is running
\* (a handler at the start of its tail sweep takes it in its next step).
SweepStartedAt == IF pc[1] = "rr_match" THEN now ELSE loc[1].t

\* C12: when a sweep that started at least the buffer after round k (a round
\* that was opened for commits) was resolved returns as the last handler in flight, round k is not the last
\* round and neither player has the wins needed, then round k + 1 has been
\* opened: its record exists with a commit deadline.
C12_NextRoundOpened ==
    [][\A k \in 1..(MaxBestOf - 1) :
          (/\ InFlight # {} /\ InFlight' = {}
           /\ k < match.best_of
           /\ Exists(rounds[k]) /\ Resolved(rounds[k])
           /\ rounds[k].commit_deadline # NULL
           /\ SweepStartedAt >= rounds[k].updated_at + PHASE_BUFFER
           /\ match'.status = "in_progress" /\ NobodyAtNeeded')
             => /\ Exists(rounds'[k + 1])
                /\ rounds'[k + 1].commit_deadline # NULL]_vars

\* A request arrives in slot p and its first step ends at `label`.
Arrives(p, label) ==
    /\ pc[p] = "idle" /\ pc'[p] = label
    /\ Cardinality(InFlight') > Cardinality(InFlight)

\* Handler p, at `label`, writes a timeout resolution to round k.
WritesForfeit(p, label, k) ==
    /\ pc[p] = label
    /\ Min(Todo(loc[p].plan)) = k
    /\ loc[p].plan[k].kind = "forfeit"
    /\ pc'[p] # "idle" /\ loc'[p].plan[k].kind = "none"
    /\ Cardinality(InFlight') = Cardinality(InFlight)

\* The forfeit rule of the commit phase: at time t the commit deadline of the
\* unresolved round r has passed and a commitment is missing.
CommitForfeitDue(r, t) ==
    /\ Exists(r) /\ ~Resolved(r) /\ r.phase = "commit"
    /\ r.commit_deadline # NULL /\ t > r.commit_deadline
    /\ ~(hasCommit(r, 1) /\ hasCommit(r, 2))

\* The player who committed is awarded the round; a draw if nobody did.
CommitForfeitOutcome(r) ==
    IF hasCommit(r, 1) THEN 1 ELSE IF hasCommit(r, 2) THEN -1 ELSE 0

\* C13: a sweep (checkAndResolveTimeouts) that reads a round in commit phase
\* after its commit deadline with a commitment missing resolves it: it awards
\* the round to the player who committed, or records a draw if neither did,
\* and that is the outcome it writes with phase done.
C13_CommitTimeoutRule ==
    /\ [](\A k \in RoundNums :
            CommitForfeitDue(rounds[k], now)
               => CTPlan(rounds[k], now) = ForfeitPlan(CommitForfeitOutcome(rounds[k])))
    /\ [][\A p \in Procs, k \in RoundNums :
            /\ (Arrives(p, "ct_sweep") /\ CommitForfeitDue(rounds[k], now))
                  => loc'[p].plan[k] = ForfeitPlan(CommitForfeitOutcome(rounds[k]))
            /\ WritesForfeit(p, "ct_sweep", k)
                  => /\ rounds'[k].result = loc[p].plan[k].result
                     /\ rounds'[k].phase = "done"]_vars

\* A sweep has awarded round 1 to player 1, the only one who committed.
C13_Witness ==
    /\ forfeits[1] > 0
    /\ rounds[1].phase = "done" /\ rounds[1].result = 1
    /\ rounds[1].commit1 # NULL /\ rounds[1].commit2 = NULL
    /\ rounds[1].move1 = NULL /\ rounds[1].move2 = NULL

\* Handler p reads the rounds for the backend sweep's loop and has work to do.
PlansSweep(p) ==
    /\ pc[p] # "rr_sweep" /\ pc'[p] = "rr_sweep"
    /\ Cardinality(InFlight') >= Cardinality(InFlight)

\* The forfeit rule of the reveal phase: at time t the reveal deadline of the
\* unresolved round r has passed and a move is missing.
RevealForfeitDue(r, t) ==
    /\ Exists(r) /\ ~Resolved(r) /\ r.phase = "reveal"
    /\ r.reveal_deadline # NULL /\ t > r.reveal_deadline
    /\ ~(r.move1 # NULL /\ r.move2 # NULL)

\* The player who did not reveal loses the round; a draw if nobody revealed.
RevealForfeitOutcome(r) ==
    IF r.move1 # NULL THEN 1 ELSE IF r.move2 # NULL THEN -1 ELSE 0

\* C14: a sweep (reconcileRounds) that reads a round in reveal phase after its
\* reveal deadline with a move missing resolves it: the player who did not
\* reveal loses the round, a draw is recorded if neither revealed, and that is
\* the outcome it writes with phase done.
C14_RevealTimeoutRule ==
    /\ [](\A k \in RoundNums :
            RevealForfeitDue(rounds[k], now)
               => RRPlan(rounds[k], now) = ForfeitPlan(RevealForfeitOutcome(rounds[k])))
    /\ [][\A p \in Procs, k \in RoundNums :
            /\ (PlansSweep(p) /\ RevealForfeitDue(rounds[k], loc'[p].t))
                  => loc'[p].plan[k] = ForfeitPlan(RevealForfeitOutcome(rounds[k]))
            /\ WritesForfeit(p, "rr_sweep", k)
                  => /\ rounds'[k].result = loc[p].plan[k].result
                     /\ rounds'[k].phase = "done"]_vars

\* A sweep has awarded round 1 to player 1, the only one who revealed.
C14_Witness ==
    /\ forfeits[1] > 0
    /\ rounds[1].phase = "done" /\ rounds[1].result = 1
    /\ hasCommit(rounds[1], 1) /\ hasCommit(rounds[1], 2)
    /\ rounds[1].move1 # NULL /\ rounds[1].move2 = NULL

\* C15: no auto-win beyond a single round: while fewer rounds are resolved
\* than wins-needed, no win counter has reached wins-needed and the match is
\* in progress (a timed-out round is worth at most one round win), and the
\* match is decided only when a win counter has reached wins-needed or all
\* rounds are resolved.
C15_NoAutoWin ==
    /\ Cardinality(DoneRounds) < NeededWins(match.best_of)
          => (NobodyAtNeeded /\ ~Decided)
    /\ Decided => (~NobodyAtNeeded \/ AllRoundsResolved)

\* reconcileRounds as a function: what one call that runs with no other
\* handler in between makes of the match row m and the round rows rs at its
\* `now` (t).
\* The gap fill: every round number of 1..best_of with no row gets one.
SweepFill(m, rs, t) ==
    [k \in RoundNums |->
        IF k <= m.best_of /\ ~Exists(rs[k])
        THEN [NoRow EXCEPT !.phase = "done", !.result = 0, !.updated_at = t]
        ELSE rs[k]]

\* The loop over roundsAfter: each round's planned update.
SweepLoop(rs, t) ==
    [k \in RoundNums |->
        LET plan == RRPlan(rs[k], t) IN
        IF plan.kind = "advance"
        THEN [rs[k] EXCEPT !.phase = "reveal", !.reveal_deadline = plan.rdl,
                           !.updated_at = t]
        ELSE IF plan.kind = "forfeit"
        THEN [rs[k] EXCEPT !.phase = "done", !.result = plan.result,
                           !.updated_at = t]
        ELSE rs[k]]

\* calcWins1 / calcWins2 over the rows rs.
CountWins(rs, res) ==
    Cardinality({k \in RoundNums : rs[k].phase = "done" /\ rs[k].result = res})

SweepAlone(m, rs, t) ==
    IF m.status # "in_progress" THEN [match |-> m, rounds |-> rs]
    ELSE
    LET filled == SweepFill(m, rs, t)
        looped == SweepLoop(filled, t)
        awarded(res) == Cardinality({k \in RoundNums :
                            /\ RRPlan(filled[k], t).kind = "forfeit"
                            /\ RRPlan(filled[k], t).result = res})
        calc1 == CountWins(looped, 1)
        calc2 == CountWins(looped, -1)
        differs == calc1 # m.wins1 \/ calc2 # m.wins2
        w1 == IF differs THEN calc1 ELSE m.wins1 + awarded(1)
        w2 == IF differs THEN calc2 ELSE m.wins2 + awarded(-1)
        fixed == IF differs THEN [m EXCEPT !.wins1 = calc1, !.wins2 = calc2] ELSE m
        done == {k \in RoundNums : Exists(looped[k]) /\ Resolved(looped[k])}
        actualLastDone == Max0(done)
        hasWinner == w1 >= NeededWins(m.best_of) \/ w2 >= NeededWins(m.best_of)
        opened ==
            IF /\ ~hasWinner /\ actualLastDone < m.best_of /\ actualLastDone >= 1
               /\ ~Exists(looped[actualLastDone + 1])
            THEN [looped EXCEPT ![actualLastDone + 1] =
                     [NoRow EXCEPT !.phase = "commit",
                                   !.commit_deadline = t + COMMIT_WINDOW,
                                   !.updated_at = t]]
            ELSE looped
        allDone == Cardinality(done) >= m.best_of
    IN [match |-> IF (hasWinner \/ allDone) /\ RRWinner(w1, w2, m.best_of) # NULL
                  THEN [fixed EXCEPT !.status = "ready_to_settle",
                                     !.winner_address = RRWinner(w1, w2, m.best_of),
                                     !.wins1 = w1, !.wins2 = w2]
                  ELSE fixed,
        rounds |-> opened]

\* C16: reconcile is idempotent: from any state the match can be in, a second
\* call right after the first, at the same time and with nothing in between,
\* leaves the match row and the round rows as the first call left them.
C16_ReconcileIdempotent ==
    LET once == SweepAlone(match, rounds, now) IN
    SweepAlone(once.match, once.rounds, now) = once

\* checkAndResolveTimeouts as a function: what one call that runs with no
\* other handler in between makes of the match row m and the round rows rs at
\* its `now` (t).
\* The loop over the rounds read: each round's planned update.
CtLoop(rs, t) ==
    [k \in RoundNums |->
        LET plan == CTPlan(rs[k], t) IN
        IF plan.kind = "advance"
        THEN [rs[k] EXCEPT !.phase = "reveal", !.reveal_deadline = plan.rdl,
                           !.updated_at = t]
        ELSE IF plan.kind = "forfeit"
        THEN [rs[k] EXCEPT !.phase = "done", !.result = plan.result,
                           !.updated_at = t]
        ELSE rs[k]]

CtAlone(m, rs, t) ==
    IF m.status # "in_progress" THEN [match |-> m, rounds |-> rs]
    ELSE
    LET looped == CtLoop(rs, t)
        awards(res) == \E k \in RoundNums :
                           /\ CTPlan(rs[k], t).kind = "forfeit"
                           /\ CTPlan(rs[k], t).result = res
        w1 == IF awards(1) THEN m.wins1 + 1 ELSE m.wins1
        w2 == IF awards(-1) THEN m.wins2 + 1 ELSE m.wins2
        counted == [m EXCEPT !.wins1 = w1, !.wins2 = w2]
        lastDone == Max0({k \in RoundNums : Exists(rs[k]) /\ Resolved(rs[k])})
        roundDoneAt == IF lastDone # 0 /\ rs[lastDone].updated_at # NULL
                       THEN rs[lastDone].updated_at ELSE t
        hasWinner == w1 >= NeededWins(m.best_of) \/ w2 >= NeededWins(m.best_of)
        opened ==
            IF /\ lastDone # 0 /\ ~hasWinner /\ lastDone < m.best_of
               /\ t >= roundDoneAt + PHASE_BUFFER
               /\ ~Exists(looped[lastDone + 1])
            THEN [looped EXCEPT ![lastDone + 1] =
                     [NoRow EXCEPT !.phase = "commit",
                                   !.commit_deadline = t + COMMIT_WINDOW,
                                   !.updated_at = t]]
            ELSE looped
    IN [match |-> IF hasWinner
                  THEN [counted EXCEPT !.status = "ready_to_settle",
                                       !.winner_address =
                                           IF w1 >= NeededWins(m.best_of) THEN 1 ELSE 2]
                  ELSE counted,
        rounds |-> opened]

\* The resolved rounds of rs whose recorded outcome is res.
RoundsWon(rs, res) ==
    Cardinality({k \in RoundNums :
                    Exists(rs[k]) /\ Resolved(rs[k]) /\ rs[k].result = res})

\* C17: after a sweep of a match in progress that no other handler is working
\* on, each win counter is the number of resolved rounds recorded as won by
\* that player, whatever the counters the match had reached before the sweep.
C17_SweepRecountsWins ==
    LET after == CtAlone(match, rounds, now) IN
    (match.status = "in_progress" /\ InFlight = {})
       => /\ after.match.wins1 = RoundsWon(after.rounds, 1)
          /\ after.match.wins2 = RoundsWon(after.rounds, -1)

\* C18: the win counters are monotonic: no step lowers wins1 or wins2.
C18_WinsMonotonic ==
    [][/\ match'.wins1 >= match.wins1
       /\ match'.wins2 >= match.wins2]_vars

\* C19: the winner is set exactly when the match is decided (but for a
\* full-match draw, which is decided with no winner), and a set winner is the
\* player whose win counter has reached wins-needed.
C19_WinnerIffDecided ==
    /\ match.winner_address # NULL => Decided
    /\ Decided => (match.winner_address # NULL \/ (AllRoundsResolved /\ NobodyAtNeeded))
    /\ match.winner_address = 1 => match.wins1 >= NeededWins(match.best_of)
    /\ match.winner_address = 2 => match.wins2 >= NeededWins(match.best_of)

\* C20: a round's deadlines are never moved: once a round has a commit
\* deadline no step changes it, and once it has a reveal deadline no step
\* changes it.
C20_DeadlinesNeverMoved ==
    [][\A k \in RoundNums :
          /\ rounds[k].commit_deadline # NULL
                => rounds'[k].commit_deadline = rounds[k].commit_deadline
          /\ rounds[k].reveal_deadline # NULL
                => rounds'[k].reveal_deadline = rounds[k].reveal_deadline]_vars

\* C21: a round goes from commit to reveal only when both digests are stored
\* and the time is at least the commit deadline plus the buffer.
C21_RevealOnlyAfterWindow ==
    [][\A k \in RoundNums :
          (rounds[k].phase = "commit" /\ rounds'[k].phase = "reveal")
             => /\ hasCommit(rounds[k], 1) /\ hasCommit(rounds[k], 2)
                /\ rounds[k].commit_deadline # NULL
                /\ now >= rounds[k].commit_deadline + PHASE_BUFFER]_vars

\* C22: deadlines are checked at the moment of the call: no commit request
\* is accepted after the commit deadline of its round, and no reveal request
\* after the reveal deadline of its round.
C22_DeadlineCheckedAtCall ==
    [][\A p \in Procs :
          /\ Arrives(p, "sc_write")
                => LET r == rounds[loc'[p].n] IN
                   r.commit_deadline # NULL => now <= r.commit_deadline
          /\ Arrives(p, "sr_move")
                => LET r == rounds[loc'[p].n] IN
                   r.reveal_deadline # NULL => now <= r.reveal_deadline]_vars

Replies == {p \in Procs : pc[p] \in {"fz_reply", "sf_reply", "sg_reply"}}

\* C24: a response or event carries signatures only when it carries both: no
\* stored signature goes out while the other slot is empty.
C24_NoPartialPayload ==
    \A p \in Replies :
        (loc[p].out1 # NULL \/ loc[p].out2 # NULL)
           => (loc[p].out1 # NULL /\ loc[p].out2 # NULL)

\* C25: the signature slots are write-once: once a player's slot holds a
\* signature, no step replaces it.
C25_SigWriteOnce ==
    [][\A player \in Players :
          SigOf(match, player) # NULL
             => SigOf(match', player) = SigOf(match, player)]_vars

\* C26: the Result Record of a decided match is never recomputed to another
\* value: once the match is decided no step changes the winner, the win
\* counts or the round outcomes behind the transcript digest.
C26_ResultRecordFixed ==
    [][Decided => ResultRecord' = ResultRecord]_vars

\* The matchResult of the ready_to_settle event that the reveal handler emits
\* after its status update: the match row it read with its own newWins1 and
\* newWins2, the winner read back, and the rounds read again.
PushedRecord(l, m, rs) ==
    buildMatchResult([m EXCEPT !.wins1 = l.w1, !.wins2 = l.w2], rs)

\* C27: the Result Record of a decided match is the same whichever path
\* assembles it: the record pushed with the ready_to_settle event is the
\* record that the state, finalize and signatures paths build from the rows
\* at that moment.
C27_SameRecordOnEveryPath ==
    [][\A p \in Procs :
          (/\ pc[p] = "sr_status" /\ pc'[p] = "rr_match"
           /\ Cardinality(InFlight') = Cardinality(InFlight))
             => PushedRecord(loc[p], match', rounds') = ResultRecord']_vars


\* What a sweep leaves behind, as the records' observable content: each
\* round's existence, phase and outcome, the win counters, the match status
\* and the winner.
SweepOutcome(s) ==
    [status |-> s.match.status,
     wins1  |-> s.match.wins1,
     wins2  |-> s.match.wins2,
     winner |-> s.match.winner_address,
     rounds |-> [k \in RoundNums |->
                    [exists |-> Exists(s.rounds[k]),
                     phase  |-> s.rounds[k].phase,
                     result |-> s.rounds[k].result]]]

\* C28: the reconciliation run when a player acts (reconcileRounds, push path)
\* and the one run by polling (checkAndResolveTimeouts, poll path) converge:
\* applied to the same match and round records at the same time, with no
\* handler in flight, they leave the same phases, outcomes, win counters,
\* rounds and match status.
C28_PushPollConverge ==
    (match.status = "in_progress" /\ InFlight = {})
       => SweepOutcome(SweepAlone(match, rounds, now))
            = SweepOutcome(CtAlone(match, rounds, now))


\* resolveCommitHex(hex, bytea): the hex column when it holds a digest,
\* otherwise the bytea column decoded, otherwise null.
resolveCommitHex(hex, bytea) == IF hex # NULL THEN hex ELSE bytea

\* The other player.
Opponent(player) == 3 - player

\* A per-round view that fills the opponent's move from the opponent's
\* commitment as soon as one is stored.
RoundViewUnredacted(k, player) ==
    LET r == rounds[k]
        opp == resolveCommitHex(IF player = 1 THEN r.commit2_hex ELSE r.commit1_hex,
                                IF player = 1 THEN r.commit2 ELSE r.commit1)
    IN [roundNumber    |-> k,
        phase          |-> r.phase,
        myCommit       |-> resolveCommitHex(IF player = 1 THEN r.commit1_hex ELSE r.commit2_hex,
                                            IF player = 1 THEN r.commit1 ELSE r.commit2),
        opponentCommit |-> opp,
        myMove         |-> IF player = 1 THEN r.move1 ELSE r.move2,
        opponentMove   |-> IF opp = NULL THEN NULL ELSE opp % 4,
        result         |-> r.result,
        commitDeadline |-> r.commit_deadline,
        revealDeadline |-> r.reveal_deadline]

\* One element of roundStates, as buildStatePayload and GET /api/match/state
\* build it for `player` from the stored row of round k.
RoundView(k, player) ==
    LET r == rounds[k] IN
    [roundNumber    |-> k,
     phase          |-> r.phase,
     myCommit       |-> resolveCommitHex(IF player = 1 THEN r.commit1_hex ELSE r.commit2_hex,
                                         IF player = 1 THEN r.commit1 ELSE r.commit2),
     opponentCommit |-> resolveCommitHex(IF player = 1 THEN r.commit2_hex ELSE r.commit1_hex,
                                         IF player = 1 THEN r.commit2 ELSE r.commit1),
     myMove         |-> IF player = 1 THEN r.move1 ELSE r.move2,
     opponentMove   |-> IF player = 1 THEN r.move2 ELSE r.move1,
     result         |-> r.result,
     commitDeadline |-> r.commit_deadline,
     revealDeadline |-> r.reveal_deadline]

\* Handler p stores, in this step, the move `move` that `player` revealed for
\* round k (the reveal was accepted against the player's stored commitment).
RevealStored(p, player, k, move) ==
    /\ pc[p] \in {"sr_move", "rv_move"}
    /\ pc'[p] \in {"sr_check", "rv_check"}
    /\ loc[p].player = player
    /\ loc[p].n = k
    /\ loc[p].val = move

\* C29: in every per-round view returned to a player the opponent's move is
\* absent until the opponent's own reveal is stored: it is null at the start,
\* it becomes known only in the step that stores the opponent's accepted
\* reveal, as the move revealed; and the view never has a salt field.
C29_OpponentMoveRedacted ==
    /\ []( \A k \in RoundNums, player \in Players :
              "salt" \notin DOMAIN RoundView(k, player) )
    /\ (\A k \in RoundNums, player \in Players :
              RoundView(k, player).opponentMove = NULL)
    /\ [][\A k \in RoundNums, player \in Players :
            (RoundView(k, player).opponentMove # RoundView(k, player)'.opponentMove
                /\ RoundView(k, player)'.opponentMove # NULL)
              => \E p \in Procs :
                    RevealStored(p, Opponent(player), k,
                                 RoundView(k, player)'.opponentMove)]_vars

\* The opponent has revealed and the player has not: the player's view shows
\* the opponent's move, the opponent's view shows only the player's digest.
C29_Witness ==
    \E k \in RoundNums, player \in Players :
        /\ RoundView(k, player).opponentMove # NULL
        /\ RoundView(k, player).myMove = NULL
        /\ RoundView(k, Opponent(player)).opponentMove = NULL
        /\ RoundView(k, Opponent(player)).opponentCommit # NULL


\* Handler p reaches, in this step, the point where its request is answered
\* with an error.
Rejected(p) ==
    /\ pc[p] # "fz_reject"
    /\ pc'[p] = "fz_reject"
    /\ Cardinality(InFlight') = Cardinality(InFlight)

\* C30: submissions are fail-closed: a request that is rejected with an error
\* leaves the match and round records as they were; the step that takes a
\* handler to its error response writes nothing.
C30_RejectedWritesNothing ==
    [][\A p \in Procs : Rejected(p) => (match' = match /\ rounds' = rounds)]_vars


\* C31: every commit path rejects placeholder digests at the commit step and
\* stores nothing for them: no round ever holds a placeholder digest in a
\* commitment column of either player.
C31_NoPlaceholderStored ==
    \A k \in RoundNums, player \in Players :
        /\ ~isPlaceholder(StoredHex(rounds[k], player))
        /\ ~isPlaceholder(CommitOf(rounds[k], player))


\* This step is a settleMatch transaction for match id `id`.
SettleTx(id) ==
    /\ escrow' # escrow
    /\ escrow'.last.fn = "settleMatch"
    /\ escrow'.last.matchId = id

\* C32: a match cannot be settled twice on the escrow contract: no match id
\* has more than one successful settleMatch, and once one has succeeded every
\* further settleMatch for that id reverts with MatchAlreadySettled and moves
\* no funds.
C32_NoDoubleSettle ==
    /\ [](\A id \in MatchIds : escrow.settles[id] <= 1)
    /\ [][\A id \in MatchIds :
            (escrow.settles[id] >= 1 /\ SettleTx(id))
              => /\ escrow'.last.outcome = "MatchAlreadySettled"
                 /\ escrow'.balance = escrow.balance
                 /\ escrow'.wallet = escrow.wallet
                 /\ escrow'.paid = escrow.paid]_vars

\* A second settleMatch for a settled match id has been sent and has reverted.
C32_Witness ==
    \E id \in MatchIds :
        /\ escrow.settles[id] = 1
        /\ escrow.last.fn = "settleMatch"
        /\ escrow.last.matchId = id
        /\ escrow.last.outcome = "MatchAlreadySettled"


\* What the contract holds for match id `id`: nothing once it is settled,
\* else the stake of each player who locked one.
Held(e, id) ==
    LET m == e.lockedMatches[id] IN
    IF e.settledMatch[id] THEN 0
    ELSE m.stake * ((IF m.player1Locked THEN 1 ELSE 0) + (IF m.player2Locked THEN 1 ELSE 0))

RECURSIVE SumHeld(_, _)
SumHeld(e, n) == IF n = 0 THEN 0 ELSE Held(e, n) + SumHeld(e, n - 1)

\* This step is a successful settleMatch for match id `id`.
Settles(id) == escrow'.settles[id] = escrow.settles[id] + 1

\* C33: a successful settleMatch pays out exactly the two stakes escrowed for
\* the match: the whole pot to the winner named in the result, or each
\* player's own stake back on a draw; the contract's balance falls by exactly
\* the two stakes, and at all times the balance is the sum of what is held
\* for the unsettled matches, so nothing of a settled match remains.
C33_SettlePaysThePot ==
    /\ [](escrow.balance = SumHeld(escrow, NMatchIds))
    /\ [][\A id \in MatchIds : Settles(id) =>
            LET m == escrow.lockedMatches[id]
                w == escrow'.last.winner
                got(a) == IF w = 0
                          THEN (IF a = m.player1 THEN m.stake ELSE 0)
                                 + (IF a = m.player2 THEN m.stake ELSE 0)
                          ELSE (IF a = w THEN 2 * m.stake ELSE 0)
            IN /\ m.player1Locked /\ m.player2Locked
               /\ w \in {0, m.player1, m.player2}
               /\ escrow'.balance = escrow.balance - 2 * m.stake
               /\ escrow'.paid[id] = 2 * m.stake
               /\ \A a \in Addrs : escrow'.wallet[a] = escrow.wallet[a] + got(a)]_vars

\* A match has been settled as a draw between two different accounts while
\* the contract still holds the stakes of another match.
C33_Witness ==
    \E id \in MatchIds :
        /\ escrow.settles[id] = 1
        /\ escrow.last.fn = "settleMatch" /\ escrow.last.outcome = "ok"
        /\ escrow.last.matchId = id /\ escrow.last.winner = 0
        /\ escrow.lockedMatches[id].player1 # escrow.lockedMatches[id].player2
        /\ escrow.balance > 0


\* This step is a claimCommitTimeout that decides round `round` of match id.
CommitTimeoutDecides(id, round) ==
    /\ arena'.last.fn = "claimCommitTimeout"
    /\ arena'.last.matchId = id
    /\ ~arena.rounds[id][round].decided
    /\ arena'.rounds[id][round].decided

\* C34: a timeout awards a round win and not a match win: a claimCommitTimeout
\* on a round that only one player committed comes after the commit deadline,
\* gives that player exactly one more round win and the match one more round
\* played, leaves the other player's wins alone, and the match is finished
\* and settled after it exactly if 3 wins or 5 rounds have thereby been
\* reached.
C34_TimeoutIsARoundWin ==
    [][\A id \in ArenaIds, round \in ArenaRounds :
         LET m == arena.matches[id]
             r == arena.rounds[id][round]
             after == arena'.matches[id]
             only1 == r.commit1 # 0 /\ r.commit2 = 0
             only2 == r.commit1 = 0 /\ r.commit2 # 0
             reached == \/ after.wins1 >= WINS_TO_FINISH
                        \/ after.wins2 >= WINS_TO_FINISH
                        \/ after.roundsPlayed >= MAX_ROUNDS
         IN (CommitTimeoutDecides(id, round) /\ (only1 \/ only2))
            => /\ arena.timestamp > r.commitDeadline
               /\ after.wins1 = m.wins1 + (IF only1 THEN 1 ELSE 0)
               /\ after.wins2 = m.wins2 + (IF only2 THEN 1 ELSE 0)
               /\ after.roundsPlayed = m.roundsPlayed + 1
               /\ (after.status = "Finished") = reached
               /\ after.settled = reached]_vars

\* A commit timeout has given a player a first round win and the match goes on.
C34_Witness ==
    \E id \in ArenaIds :
        /\ arena.last.fn = "claimCommitTimeout"
        /\ arena.matches[id].wins1 + arena.matches[id].wins2 = 1
        /\ arena.matches[id].roundsPlayed = 1
        /\ arena.matches[id].status # "Finished"
        /\ ~arena.matches[id].settled
        /\ \E round \in ArenaRounds :
              /\ arena.rounds[id][round].decided
              /\ arena.rounds[id][round].commit1 = 0 \/ arena.rounds[id][round].commit2 = 0


\* The match id has reached a finishing score.
Reached(m) ==
    \/ m.wins1 >= WINS_TO_FINISH
    \/ m.wins2 >= WINS_TO_FINISH
    \/ m.roundsPlayed >= MAX_ROUNDS

\* What the game contract holds: a match's two wagers until it is settled,
\* and the wager of the player waiting in the queue.
RECURSIVE ArenaEscrowed(_)
ArenaEscrowed(n) ==
    IF n = 0 THEN 0
    ELSE (IF arena.matches[n].player1 # 0 /\ ~arena.matches[n].settled
          THEN 2 * arena.matches[n].wager ELSE 0) + ArenaEscrowed(n - 1)

ArenaHeld ==
    (IF arena.waitingPlayer # 0 THEN WAGER ELSE 0) + ArenaEscrowed(NArenaMatches)

\* C35: a match of the game contract is finished and settled exactly when a
\* player has 3 round wins or 5 rounds have been played, and is settled once:
\* the settling step pays both wagers to the player with more wins, or each
\* player's wager back on equal wins, and afterwards the contract holds
\* nothing of that match.
C35_FinishExactlyAtScore ==
    /\ [](\A id \in ArenaIds :
            LET m == arena.matches[id] IN
            /\ (m.status = "Finished") = Reached(m)
            /\ m.settled = Reached(m)
            /\ arena.paid[id] = IF m.settled THEN 2 * m.wager ELSE 0)
    /\ [](arena.balance = ArenaHeld)
    /\ [][\A id \in ArenaIds :
            LET m == arena.matches[id]
                after == arena'.matches[id]
                gain(a) == arena'.wallet[a] - arena.wallet[a]
            IN /\ m.settled => (after.settled /\ arena'.paid[id] = arena.paid[id])
               /\ (~m.settled /\ after.settled) =>
                    /\ after.wins1 > after.wins2 =>
                          gain(after.player1) = 2 * m.wager /\ gain(after.player2) = 0
                    /\ after.wins2 > after.wins1 =>
                          gain(after.player2) = 2 * m.wager /\ gain(after.player1) = 0
                    /\ after.wins1 = after.wins2 =>
                          gain(after.player1) = m.wager /\ gain(after.player2) = m.wager
                    /\ arena'.balance = arena.balance - 2 * m.wager]_vars

\* A match has been settled after five rounds with equal wins while a player
\* waits in the queue.
C35_Witness ==
    \E id \in ArenaIds :
        /\ arena.matches[id].settled
        /\ arena.matches[id].roundsPlayed = MAX_ROUNDS
        /\ arena.matches[id].wins1 = arena.matches[id].wins2
        /\ arena.waitingPlayer # 0


\* C40: claimCommitTimeout decides a round only when at least one player
\* failed to commit before the commit deadline: no commit-timeout claim
\* decides a round that holds both players' commitments.
C40_NoCommitTimeoutAfterBothCommitted ==
    [][\A id \in ArenaIds, round \in ArenaRounds :
         CommitTimeoutDecides(id, round)
            => \/ arena.rounds[id][round].commit1 = 0
               \/ arena.rounds[id][round].commit2 = 0]_vars


\* The player a round result counts against: result 1 is a round for player 1,
\* -1 a round for player 2, 0 a draw.
Loser(result) == IF result = 1 THEN 2 ELSE IF result = -1 THEN 1 ELSE 0

\* C36: a player loses a round by forfeit only for failing to act before a
\* deadline: whenever a sweep writes a timeout resolution that counts against
\* a player, that player does not have both a commitment and a move stored in
\* the round with the round's commit and reveal deadlines still ahead, and a
\* player without a stored commitment is counted against only once the
\* round's commit deadline has passed.
C36_ForfeitOnlyAfterMissedDeadline ==
    [][\A p \in Procs, k \in RoundNums :
          \A label \in {"ct_sweep", "rr_sweep"} :
          (WritesForfeit(p, label, k) /\ Loser(loc[p].plan[k].result) # 0)
             => LET x == Loser(loc[p].plan[k].result)
                    r == rounds[k]
                IN  /\ ~(/\ hasCommit(r, x) /\ MoveOf(r, x) # NULL
                         /\ r.commit_deadline # NULL /\ now <= r.commit_deadline
                         /\ r.reveal_deadline # NULL /\ now <= r.reveal_deadline)
                    /\ ~hasCommit(r, x)
                          => r.commit_deadline # NULL /\ now > r.commit_deadline]_vars

\* The rounds of the match that have a record and are not resolved.
OpenRounds == {k \in RoundNums : Exists(rounds[k]) /\ ~Resolved(rounds[k])}

\* C37: rounds are played strictly in order: at any time at most one round of
\* the match is unresolved; a commit request for round n is accepted, on the
\* socket and on the REST path, only if 1 <= n <= best_of and every round
\* before n is resolved; and a round becomes resolved only from a record that
\* was open for play.
C37_RoundsInOrder ==
    /\ [](Cardinality(OpenRounds) <= 1)
    /\ [][/\ \A p \in Procs :
                (Arrives(p, "sc_write") \/ Arrives(p, "rc_write"))
                   => /\ loc'[p].n \in 1..match.best_of
                      /\ \A j \in 1..(loc'[p].n - 1) : j \in DoneRounds
          /\ \A k \in RoundNums :
                (k \notin DoneRounds /\ k \in DoneRounds')
                   => k \in OpenRounds]_vars

\* getMatchResultDomain(): the EIP-712 domain of the service (chainId and
\* verifyingContract are those of the deployed contract).
getMatchResultDomain == [name |-> "RPSArena", version |-> SERVICE_DOMAIN_VERSION]

\* The MatchResult struct of a payload: the Result Record with the match id,
\* the players' addresses, the stake and the nonce.
MatchResultStruct(R) ==
    [matchId |-> 1, player1 |-> 1, player2 |-> 2,
     winner |-> IF R.winner = NULL THEN 0 ELSE R.winner,
     stake |-> MIN_STAKE, bestOf |-> R.bestOf,
     wins1 |-> R.wins1, wins2 |-> R.wins2,
     transcriptHash |-> R.transcriptHash, nonce |-> 1]

\* The typed data a signature string of the service is a signature of: its
\* key, the service's domain, and the struct when its hash is that of R (a
\* struct with another nonce otherwise).
TypedDataOf(sig, R) ==
    SignTyped((sig \div NSigVariants) % 4, getMatchResultDomain.version,
              IF (sig \div NSigVariants) \div 4 = hashStruct(R)
              THEN MatchResultStruct(R)
              ELSE [MatchResultStruct(R) EXCEPT !.nonce = 0])

\* C38: the service's EIP-712 domain is the settlement contract's: for every
\* payload going out as ready (the Result Record with two signatures the
\* service accepted for it), settleMatch's signature check recovers player1
\* from the first signature and player2 from the second.
C38_ReadyPayloadPassesContract ==
    \A p \in Replies :
        (/\ loc[p].out1 # NULL /\ loc[p].out2 # NULL
         /\ verifyMatchResultSignature(loc[p].out1, ResultRecord, 1)
         /\ verifyMatchResultSignature(loc[p].out2, ResultRecord, 2))
           => LET result == MatchResultStruct(ResultRecord) IN
              /\ _recoverSigner(result, TypedDataOf(loc[p].out1, ResultRecord))
                    = result.player1
              /\ _recoverSigner(result, TypedDataOf(loc[p].out2, ResultRecord))
                    = result.player2

\* getNextActionForPlayer(match, rounds, playerAddress) at time t: the action
\* reported to the player.  currentRound is the first round record whose
\* phase is not "done".
getNextActionForPlayer(m, rs, player, t) ==
    LET current == {k \in RoundNums : Exists(rs[k]) /\ rs[k].phase # "done"}
        r == rs[Min(current)]
    IN
    IF m.status = "in_progress" /\ current = {} THEN "sign_result"
    ELSE IF m.status = "in_progress" /\ r.phase = "commit"
    THEN IF ~hasCommit(r, player)
         THEN (IF r.commit_deadline # NULL /\ t > r.commit_deadline
               THEN "timeout" ELSE "commit")
         ELSE IF hasCommit(r, Opponent(player)) THEN "wait_reveal"
         ELSE "wait_commit"
    ELSE IF m.status = "in_progress" /\ r.phase = "reveal"
    THEN IF MoveOf(r, player) = NULL
         THEN (IF r.reveal_deadline # NULL /\ t > r.reveal_deadline
               THEN "timeout" ELSE "reveal")
         ELSE "wait_reveal"
    ELSE IF m.status = "ready_to_settle"
    THEN IF SigOf(m, player) = NULL THEN "sign_result"
         ELSE IF m.sig1 = NULL \/ m.sig2 = NULL THEN "wait_signatures"
         ELSE "settle"
    ELSE IF m.status = "finished" THEN "done"
    ELSE "wait_result"

\* C39: the action reported to a player is consistent with the match state:
\* sign_result is reported only when the match status is ready_to_settle and
\* the player's own signature slot is empty, never while the match is in
\* progress.
C39_SignResultOnlyWhenReady ==
    \A player \in Players :
        getNextActionForPlayer(match, rounds, player, now) = "sign_result"
           => /\ match.status = "ready_to_settle"
              /\ SigOf(match, player) = NULL
====
